---- MODULE Spec2Model ----
(***************************************************************************)
(* The vision-event pipeline of auteur-agent: the useAuteurVision hook     *)
(* (src/frontend/hooks/useAuteurVision.ts) together with the part of the   *)
(* page that drives its props (src/frontend/app/page.tsx).                 *)
(*                                                                         *)
(* A text is a sequence of one-character strings.  An optional value       *)
(* (T | null) is a sequence of length at most one: <<>> is null.           *)
(***************************************************************************)
EXTENDS Integers, Sequences, FiniteSets, TLC

VARIABLES
    \* props and page state
    roomRef,            \* roomRef.current: "null" | "noParticipant" | "ready"
    enabled,            \* prop enabled (page: sessionActive)
    isConnected,        \* prop isConnected (page state)
    connDeps,           \* isConnected at the last run of the [isConnected] effects
    lensDeps,           \* lens at the last run of the [lens] effect
    autoDeps,           \* <<enabled, isStreaming>> at the last run of the auto start/stop effect
    mounted,            \* the hook is mounted
    \* hook state
    lens, visionStatus, latestInsight, insightLog, isStreaming, error,
    \* hook refs
    visionRef, lastAnalysisRef, staleTimerRef, currentLensRef,
    pendingInsightRef, isConnectedRef,
    \* collaborators
    inst,               \* RealtimeVision instances: id -> [st, prompt]
    stopping,           \* stopVision calls suspended at `await visionRef.current.stop()`
    timers,             \* pending setTimeout timers: set of [id, due]
    now,                \* Date.now()
    credentials,        \* NEXT_PUBLIC_OVERSHOOT_API_URL and _KEY are both set
    \* observation of the run
    accepted,           \* every insight created by processVisionResult, in order
    sent,               \* every insight whose publishData call returned, in order
    lastCall,           \* the most recent sendVisionUpdate call and its outcome
    lastResult,         \* the most recent processVisionResult call and its outcome
    resetSince          \* startVision/stopVision set visionStatus idle since the last acceptance

vars == << roomRef, enabled, isConnected, connDeps, lensDeps, autoDeps, mounted,
           lens, visionStatus, latestInsight, insightLog, isStreaming, error,
           visionRef, lastAnalysisRef, staleTimerRef, currentLensRef,
           pendingInsightRef, isConnectedRef,
           inst, stopping, timers, now, credentials,
           accepted, sent, lastCall, lastResult, resetSince >>

pageVars   == << roomRef, enabled, isConnected, connDeps, lensDeps, autoDeps, mounted >>
insightVars == << latestInsight, insightLog, accepted >>
relayVars  == << pendingInsightRef, sent, lastCall >>
timerVars  == << staleTimerRef, timers >>

----------------------------------------------------------------------------
(* Bounds of the model *)

MaxAccepted == 3        \* insights accepted in one run of SpecRelay, results in one of Spec
MaxFresh    == 2        \* insights accepted in one run of SpecFresh
MaxInst     == 2        \* RealtimeVision instances created in one run
MaxStops    == 2        \* stopVision calls suspended on one instance
MaxTime     == 15000    \* the clock stops here
TickMs      == 5000     \* granularity of the clock
MaxLogRun   == 52       \* insights accepted in one run of SpecHistory
MaxDedup    == 2        \* results processed in one run of SpecDedup
MaxStarts   == 1        \* startVision calls in one run of SpecFresh
MaxSession  == 2        \* results processed in one run of SpecLens or SpecSession
MaxParse    == 1        \* results processed in one run of SpecParse or SpecOverlay

(* Program constants *)

\* Mutant: the timer runs for half the time.
STALE_MS_half == 10000 \div 2
STALE_MS    == 10000
MAX_LOG     == 50
MIN_TOKEN   == 2
THRESH_NUM  == 4
THRESH_DEN  == 5
DEFAULT_SCORE == 5
MIN_SCORE   == 1
MAX_SCORE   == 10
MAX_LABEL   == 50

LensMode == {"geometry", "light", "story"}

LENS_PROMPTS == [l \in LensMode |-> <<"prompt", l>>]

\* The lenses the user switches to in the model
Lenses == {"geometry", "story"}

----------------------------------------------------------------------------
(* Texts *)

Whitespace == {" ", "\t", "\n"}

toLowerCase(c) ==
    CASE c = "A" -> "a" [] c = "B" -> "b" [] c = "C" -> "c" [] c = "D" -> "d"
      [] c = "E" -> "e" [] c = "F" -> "f" [] c = "W" -> "w" [] c = "S" -> "s"
      [] OTHER -> c

lowered(s) == [i \in 1..Len(s) |-> toLowerCase(s[i])]

\* String.prototype.split(/\s+/): the pieces between maximal runs of
\* whitespace; a leading or trailing run leaves an empty piece at that end.
RECURSIVE splitFrom(_, _, _, _)
splitFrom(s, i, cur, inRun) ==
    IF i > Len(s) THEN << cur >>
    ELSE IF s[i] \in Whitespace
         THEN IF inRun THEN splitFrom(s, i + 1, cur, TRUE)
              ELSE << cur >> \o splitFrom(s, i + 1, <<>>, TRUE)
         ELSE splitFrom(s, i + 1, Append(cur, s[i]), FALSE)

split(s) == splitFrom(s, 1, <<>>, FALSE)

tokenize(s) == SelectSeq(split(lowered(s)), LAMBDA t : Len(t) > MIN_TOKEN)

Range(q) == {q[i] : i \in 1..Len(q)}

\* A similarity is the fraction num/den, kept as a pair.
Zero == [num |-> 0, den |-> 1]

\* Mutant: the intersection counts the tokens of a that b lacks.
calculateSimilarity_complement(a, b) ==
    IF a = <<>> \/ b = <<>> THEN Zero
    ELSE LET tokensA == Range(tokenize(a))
             tokensB == Range(tokenize(b))
         IN  IF Cardinality(tokensA) = 0 \/ Cardinality(tokensB) = 0 THEN Zero
             ELSE [num |-> Cardinality({t \in tokensA : t \notin tokensB}),
                   den |-> Cardinality(tokensA \cup tokensB)]

\* Mutant: an empty text or token set counts as identical.
calculateSimilarity_emptyEqual(a, b) ==
    IF a = <<>> \/ b = <<>> THEN [num |-> 1, den |-> 1]
    ELSE LET tokensA == Range(tokenize(a))
             tokensB == Range(tokenize(b))
         IN  IF Cardinality(tokensA) = 0 \/ Cardinality(tokensB) = 0
             THEN [num |-> 1, den |-> 1]
             ELSE [num |-> Cardinality({t \in tokensA : t \in tokensB}),
                   den |-> Cardinality(tokensA \cup tokensB)]

calculateSimilarity(a, b) ==
    IF a = <<>> \/ b = <<>> THEN Zero
    ELSE LET tokensA == Range(tokenize(a))
             tokensB == Range(tokenize(b))
         IN  IF Cardinality(tokensA) = 0 \/ Cardinality(tokensB) = 0 THEN Zero
             ELSE [num |-> Cardinality({t \in tokensA : t \in tokensB}),
                   den |-> Cardinality(tokensA \cup tokensB)]

\* Mutant: similarity >= 0.8
isDuplicate_atLeast(sim) == THRESH_DEN * sim.num >= THRESH_NUM * sim.den

\* similarity > 0.8
isDuplicate(sim) == THRESH_DEN * sim.num > THRESH_NUM * sim.den

----------------------------------------------------------------------------
(* Values *)

Null == <<>>
Some(x) == << x >>

Min(a, b) == IF a < b THEN a ELSE b
Max(a, b) == IF a > b THEN a ELSE b

\* A JavaScript value as JSON.parse yields it, [t, n]: t is its kind and n
\* its number.  A number is kept in tenths (n = 15 is 1.5).  A string is
\* "numstr" (it reads as the number n), "text" (it reads as no number) or
\* "emptystr"; "undefined" is a member that is missing; "nan" is NaN,
\* which no JSON text yields and arithmetic does.
JS(t, n) == [t |-> t, n |-> n]
Undefined == JS("undefined", 0)
JSNull    == JS("null", 0)
NaN       == JS("nan", 0)
Num(n)    == JS("num", n)
NumStr(n) == JS("numstr", n)
Text      == JS("text", 0)
EmptyStr  == JS("emptystr", 0)
True      == JS("bool", 1)
False     == JS("bool", 0)
Object    == JS("obj", 0)

\* ToBoolean
truthy(v) ==
    CASE v.t \in {"undefined", "null", "nan", "emptystr"} -> FALSE
      [] v.t = "bool" -> v.n = 1
      [] v.t = "num"  -> v.n # 0
      [] OTHER -> TRUE

\* ToNumber
ToNumber(v) ==
    CASE v.t \in {"num", "numstr"} -> Num(v.n)
      [] v.t \in {"null", "emptystr"} -> Num(0)
      [] v.t = "bool" -> Num(10 * v.n)
      [] OTHER -> NaN

\* a || b
or(a, b) == IF truthy(a) THEN a ELSE b

\* Math.min(a, b) and Math.max(a, b)
MathMin(a, b) ==
    LET x == ToNumber(a)  y == ToNumber(b)
    IN  IF x = NaN \/ y = NaN THEN NaN ELSE Num(Min(x.n, y.n))

MathMax(a, b) ==
    LET x == ToNumber(a)  y == ToNumber(b)
    IN  IF x = NaN \/ y = NaN THEN NaN ELSE Num(Max(x.n, y.n))

\* parseInt(v): the integer the text of v starts with, in tenths
parseInt(v) ==
    IF v.t \in {"num", "numstr"}
    THEN Num(10 * (IF v.n >= 0 THEN v.n \div 10 ELSE 0 - ((0 - v.n) \div 10)))
    ELSE NaN

\* Math.max(0, Math.min(1, c || 0))
clamp01(c) == MathMax(Num(0), MathMin(Num(10), or(c, Num(0))))

\* The k-th element of a JavaScript array, undefined past its end
at(arr, k) == IF k <= Len(arr) THEN arr[k] ELSE Undefined

\* The type member of an entry: a string (s, which may be empty), or a
\* value that is no string.
TypeStr(s) == [t |-> "str", s |-> s]
NoType     == [t |-> "undefined", s |-> ""]
NumType    == [t |-> "num", s |-> ""]

\* An entry of the overlays array of a response: null, a number, a string
\* or an object {type, status, coordinates, label, connection,
\* narrative_role}.  coordinates is << >> when it is no array and
\* << components >> when it is one; status and narrative_role are the
\* string, "" when missing; label is the length of the string, -1 when
\* it is missing or no string.
Entry(kind, type, status, coordinates, label, connection, role) ==
    [kind |-> kind, type |-> type, status |-> status, coordinates |-> coordinates,
     label |-> label, connection |-> connection, narrative_role |-> role]

NullEntry   == Entry("null", NoType, "", <<>>, -1, Undefined, "")
NumberEntry == Entry("num", NoType, "", <<>>, -1, Undefined, "")
StringEntry == Entry("str", NoType, "", <<>>, -1, Undefined, "")

\* StreamInferenceResult.  The result string is kept by its shape: "empty"
\* (the empty string), "nobrace" (no {...} substring), "undecodable"
\* (JSON.parse throws), or "json", "fenced" (inside a markdown fence) and
\* "embedded" (with text around it) with the members of the object it
\* carries: analysis, score and overlays (<< >> when it is no array,
\* << entries >> when it is one).
RawJson(ok, form, analysis, score, overlays) ==
    [ok |-> ok, form |-> form, analysis |-> analysis, score |-> score,
     overlays |-> overlays]

RawResult(ok, form, analysis) == RawJson(ok, form, analysis, Undefined, <<>>)

\* A VisionOverlay: coordinates, label and connection are << >> when
\* absent, status and narrative_role are "" when absent.
VisionOverlay(type, status, coordinates, label, connection, role) ==
    [type |-> type, status |-> status, coordinates |-> coordinates,
     label |-> label, connection |-> connection, narrative_role |-> role]

\* Line 118: o.type && typeof o.type === "string"
hasType(o) == o.type.t = "str" /\ o.type.s # ""

\* Lines 121-128
normalizeCoordinates(cs) ==
    IF cs # <<>> /\ Len(cs[1]) >= 2
    THEN << [k \in 1..4 |-> clamp01(at(cs[1], k))] >>
    ELSE <<>>

\* Lines 133-135
normalizeConnection(c) == IF c.t = "num" /\ c.n >= 0 THEN << c >> ELSE <<>>

\* Lines 119-139: the overlay made of the entry o
normalizeOverlay(o) ==
    VisionOverlay(o.type.s, o.status, normalizeCoordinates(o.coordinates),
                  IF o.label > 0 THEN << Min(o.label, MAX_LABEL) >> ELSE <<>>,
                  normalizeConnection(o.connection),
                  IF o.narrative_role \in {"primary", "secondary", "context"}
                  THEN o.narrative_role ELSE "")

\* Lines 115-142, for entries none of which is null
normalizeOverlays(entries) ==
    LET kept == SelectSeq(entries, hasType)
    IN  [k \in 1..Len(kept) |-> normalizeOverlay(kept[k])]

\* Line 146: Math.min(10, Math.max(1, parseInt(parsed.score) || 5))
normalizeScore(score) ==
    LET p == or(parseInt(score), Num(10 * DEFAULT_SCORE))
    IN  MathMin(Num(10 * MAX_SCORE), MathMax(Num(10 * MIN_SCORE), p)).n \div 10

\* o.type of a null entry throws a TypeError
threw(raw) ==
    \/ raw.form = "undecodable"
    \/ raw.overlays # <<>> /\ \E k \in 1..Len(raw.overlays[1]) :
                               raw.overlays[1][k].kind = "null"

\* Mutant: the catch block returns an empty VisionData.
parseVisionResponse_catchDefault(raw) ==
    IF raw.form \in {"empty", "nobrace"} THEN Null
    ELSE IF threw(raw)
    THEN Some([analysis |-> <<>>, score |-> DEFAULT_SCORE, overlays |-> <<>>])
    ELSE Some([analysis |-> raw.analysis,
               score    |-> normalizeScore(raw.score),
               overlays |-> IF raw.overlays = <<>> THEN <<>>
                            ELSE normalizeOverlays(raw.overlays[1])])

parseVisionResponse(raw) ==
    IF raw.form \in {"empty", "nobrace"} THEN Null
    ELSE IF threw(raw) THEN Null
    ELSE Some([analysis |-> raw.analysis,
               score    |-> normalizeScore(raw.score),
               overlays |-> IF raw.overlays = <<>> THEN <<>>
                            ELSE normalizeOverlays(raw.overlays[1])])

\* a * W for a number of pixels W; the product is in tenths of a pixel
times(a, W) ==
    LET x == ToNumber(a) IN IF x = NaN THEN NaN ELSE Num(x.n * W)

\* a + b / 2
plusHalf(a, b) ==
    IF a = NaN \/ b = NaN THEN NaN ELSE Num(a.n + b.n \div 2)

\* Mutant: the box is scaled by the height across and the width down.
SubjectHighlight_swapped(coordinates, containerWidth, containerHeight) ==
    [left   |-> times(coordinates[1], containerHeight),
     top    |-> times(coordinates[2], containerWidth),
     width  |-> times(coordinates[3], containerHeight),
     height |-> times(coordinates[4], containerWidth)]

\* DirectorOverlay.tsx, SubjectHighlight: the box in pixels
SubjectHighlight(coordinates, containerWidth, containerHeight) ==
    [left   |-> times(coordinates[1], containerWidth),
     top    |-> times(coordinates[2], containerHeight),
     width  |-> times(coordinates[3], containerWidth),
     height |-> times(coordinates[4], containerHeight)]

\* DirectorOverlay.tsx, FocusPoint: the point in pixels
FocusPoint(x, y, containerWidth, containerHeight) ==
    [left |-> times(x, containerWidth), top |-> times(y, containerHeight)]

\* What DirectorOverlay returns for one overlay
DirectorElement(overlay, containerWidth, containerHeight) ==
    IF overlay.type = "rule_of_thirds" /\ overlay.status \in {"match", "mismatch"}
    THEN [el |-> "RuleOfThirdsGrid", status |-> overlay.status]
    ELSE IF overlay.type = "subject_highlight" /\ overlay.coordinates # <<>>
    THEN [el |-> "SubjectHighlight",
          box |-> SubjectHighlight(overlay.coordinates[1], containerWidth, containerHeight)]
    ELSE IF overlay.type = "focus_point" /\ overlay.coordinates # <<>>
    THEN [el |-> "FocusPoint",
          point |-> FocusPoint(overlay.coordinates[1][1], overlay.coordinates[1][2],
                               containerWidth, containerHeight)]
    ELSE IF overlay.type = "direction" /\ overlay.status \in {"left", "right", "up", "down"}
    THEN [el |-> "DirectionArrow", direction |-> overlay.status]
    ELSE [el |-> "null"]

\* Mutant: only the width is looked at.
DirectorOverlay_widthOnly(overlays, containerWidth, containerHeight) ==
    IF containerWidth = 0
    THEN Null
    ELSE Some([k \in 1..Len(overlays) |->
                  DirectorElement(overlays[k], containerWidth, containerHeight)])

\* DirectorOverlay: Null is the component returning null
DirectorOverlay(overlays, containerWidth, containerHeight) ==
    IF Len(overlays) = 0 \/ containerWidth = 0 \/ containerHeight = 0
    THEN Null
    ELSE Some([k \in 1..Len(overlays) |->
                  DirectorElement(overlays[k], containerWidth, containerHeight)])

\* overlay.coordinates || [0, 0, 0.1, 0.1]
DefaultCoords == << Num(0), Num(0), Num(1), Num(1) >>

\* StoryOverlay.tsx lines 288-305: the StorySubject made of the overlay at
\* place index of storyOverlays.  pos is the place of that overlay in
\* overlays, counted from 0; the component does not keep it.
StorySubject(overlay, index, pos, containerWidth, containerHeight) ==
    LET coords == IF overlay.coordinates # <<>> THEN overlay.coordinates[1]
                  ELSE DefaultCoords
        x      == times(coords[1], containerWidth)
        y      == times(coords[2], containerHeight)
        width  == times(coords[3], containerWidth)
        height == times(coords[4], containerHeight)
    IN  [overlay |-> overlay, index |-> index, pos |-> pos,
         x |-> x, y |-> y, width |-> width, height |-> height,
         centerX |-> plusHalf(x, width), centerY |-> plusHalf(y, height)]

\* subjects[targetIndex]: << >> is undefined
subjectAt(subjects, targetIndex) ==
    IF targetIndex.n % 10 = 0 /\ targetIndex.n >= 0
       /\ targetIndex.n \div 10 < Len(subjects)
    THEN << subjects[targetIndex.n \div 10 + 1] >>
    ELSE <<>>

\* c.from.index === a && c.to.index === b, for a and b in tenths: "true",
\* "false", or "threw" when c.to is undefined and its index is read
sameEnds(c, a, b) ==
    IF 10 * c.from.index # a THEN "false"
    ELSE IF c.to = <<>> THEN "threw"
    ELSE IF 10 * c.to[1].index = b THEN "true"
    ELSE "false"

\* Mutant: the reverse link is not looked for.
sameLink_forward(c, index, targetIndex) ==
    sameEnds(c, 10 * index, targetIndex.n)

\* Lines 314-316, the callback of connections.some
sameLink(c, index, targetIndex) ==
    IF sameEnds(c, 10 * index, targetIndex.n) = "false"
    THEN sameEnds(c, targetIndex.n, 10 * index)
    ELSE sameEnds(c, 10 * index, targetIndex.n)

\* Lines 313-317: connections.some stops at the first link that is the
\* same, or whose reading throws
alreadyAdded(connections, index, targetIndex) ==
    LET hits == {m \in 1..Len(connections) :
                    sameLink(connections[m], index, targetIndex) # "false"}
    IN  IF hits = {} THEN "false"
        ELSE sameLink(connections[CHOOSE m \in hits : \A n \in hits : m <= n],
                      index, targetIndex)

\* Lines 308-322: subjects.forEach from the k-th subject on; found is
\* [threw, connections]
RECURSIVE findConnections(_, _, _)
findConnections(subjects, k, found) ==
    IF k > Len(subjects) \/ found.threw THEN found
    ELSE LET subject    == subjects[k]
             connection == subject.overlay.connection
         IN  IF connection # <<>> /\ connection[1].n < 10 * Len(subjects)
             THEN LET added == alreadyAdded(found.connections, subject.index, connection[1])
                  IN  IF added = "threw"
                      THEN [threw |-> TRUE, connections |-> found.connections]
                      ELSE IF added = "true"
                      THEN findConnections(subjects, k + 1, found)
                      ELSE findConnections(subjects, k + 1,
                              [threw |-> FALSE,
                               connections |-> Append(found.connections,
                                   [from |-> subject,
                                    to   |-> subjectAt(subjects, connection[1])])])
             ELSE findConnections(subjects, k + 1, found)

\* StoryOverlay: Null is the component returning null; threw is a
\* TypeError raised while rendering (the key of a link reads to.index)
StoryOverlay(overlays, containerWidth, containerHeight) ==
    LET places == SelectSeq([k \in 1..Len(overlays) |-> k],
                            LAMBDA k : overlays[k].type = "story_subject")
    IN  IF Len(places) = 0 \/ containerWidth = 0 \/ containerHeight = 0
        THEN Null
        ELSE LET subjects == [k \in 1..Len(places) |->
                                 StorySubject(overlays[places[k]], k - 1, places[k] - 1,
                                              containerWidth, containerHeight)]
                 found == findConnections(subjects, 1,
                                          [threw |-> FALSE, connections |-> <<>>])
             IN  IF found.threw
                    \/ \E m \in 1..Len(found.connections) : found.connections[m].to = <<>>
                 THEN Some([threw |-> TRUE, subjects |-> <<>>, connections |-> <<>>])
                 ELSE Some([threw |-> FALSE, subjects |-> subjects,
                            connections |-> found.connections])


\* Mutant: the log is not cut.
prepend_uncut(insight, prev) == << insight >> \o prev

\* [insight, ...prev].slice(0, 50)
\* Mutant: the new insight is put after the ones the log already holds.
prepend_atEnd(insight, prev) ==
    SubSeq(prev \o << insight >>, 1, Min(MAX_LOG, Len(prev) + 1))

prepend(insight, prev) ==
    SubSeq(<< insight >> \o prev, 1, Min(MAX_LOG, Len(prev) + 1))

----------------------------------------------------------------------------
(* Relay *)

\* Mutant: an insight that cannot be delivered does not overwrite a pending one.
sendVisionUpdate_keepFirst(insight, forceNow, room, connected, publishOk) ==
    LET kept == IF pendingInsightRef # <<>> THEN pendingInsightRef ELSE << insight >>
    IN  IF room # "ready"
        THEN [pending |-> kept, publish |-> "none", ret |-> FALSE, raised |-> FALSE]
        ELSE IF ~forceNow /\ ~connected
        THEN [pending |-> kept, publish |-> "none", ret |-> FALSE, raised |-> FALSE]
        ELSE IF publishOk
        THEN [pending |-> <<>>, publish |-> "ok", ret |-> TRUE, raised |-> FALSE]
        ELSE [pending |-> << insight >>, publish |-> "threw", ret |-> FALSE, raised |-> FALSE]

\* Mutant: the connected flag is not consulted.
sendVisionUpdate_ignoreFlag(insight, forceNow, room, connected, publishOk) ==
    IF room # "ready"
    THEN [pending |-> << insight >>, publish |-> "none", ret |-> FALSE, raised |-> FALSE]
    ELSE IF publishOk
    THEN [pending |-> <<>>, publish |-> "ok", ret |-> TRUE, raised |-> FALSE]
    ELSE [pending |-> << insight >>, publish |-> "threw", ret |-> FALSE, raised |-> FALSE]

\* Mutant: the catch block does not keep the insight.
sendVisionUpdate_dropOnThrow(insight, forceNow, room, connected, publishOk) ==
    IF room # "ready"
    THEN [pending |-> << insight >>, publish |-> "none", ret |-> FALSE, raised |-> FALSE]
    ELSE IF ~forceNow /\ ~connected
    THEN [pending |-> << insight >>, publish |-> "none", ret |-> FALSE, raised |-> FALSE]
    ELSE IF publishOk
    THEN [pending |-> <<>>, publish |-> "ok", ret |-> TRUE, raised |-> FALSE]
    ELSE [pending |-> <<>>, publish |-> "threw", ret |-> FALSE, raised |-> FALSE]

\* Mutant: a delivered insight stays pending.
sendVisionUpdate_keepOnSuccess(insight, forceNow, room, connected, publishOk) ==
    IF room # "ready"
    THEN [pending |-> << insight >>, publish |-> "none", ret |-> FALSE, raised |-> FALSE]
    ELSE IF ~forceNow /\ ~connected
    THEN [pending |-> << insight >>, publish |-> "none", ret |-> FALSE, raised |-> FALSE]
    ELSE IF publishOk
    THEN [pending |-> << insight >>, publish |-> "ok", ret |-> TRUE, raised |-> FALSE]
    ELSE [pending |-> << insight >>, publish |-> "threw", ret |-> FALSE, raised |-> FALSE]

\* Mutant: the catch block keeps what was pending before the call.
sendVisionUpdate_keepOnThrow(insight, forceNow, room, connected, publishOk) ==
    IF room # "ready"
    THEN [pending |-> << insight >>, publish |-> "none", ret |-> FALSE, raised |-> FALSE]
    ELSE IF ~forceNow /\ ~connected
    THEN [pending |-> << insight >>, publish |-> "none", ret |-> FALSE, raised |-> FALSE]
    ELSE IF publishOk
    THEN [pending |-> <<>>, publish |-> "ok", ret |-> TRUE, raised |-> FALSE]
    ELSE [pending |-> IF pendingInsightRef # <<>> THEN pendingInsightRef ELSE << insight >>,
          publish |-> "threw", ret |-> FALSE, raised |-> FALSE]

\* The outcome of sendVisionUpdate(insight, forceNow) when roomRef.current is
\* room and isConnectedRef.current is connected; publishOk says whether
\* publishData returns (TRUE) or throws (FALSE).
sendVisionUpdate(insight, forceNow, room, connected, publishOk) ==
    IF room # "ready"
    THEN [pending |-> Some(insight), publish |-> "none", ret |-> FALSE, raised |-> FALSE]
    ELSE IF ~forceNow /\ ~connected
    THEN [pending |-> Some(insight), publish |-> "none", ret |-> FALSE, raised |-> FALSE]
    ELSE IF publishOk
    THEN [pending |-> Null, publish |-> "ok", ret |-> TRUE, raised |-> FALSE]
    ELSE [pending |-> Some(insight), publish |-> "threw", ret |-> FALSE, raised |-> FALSE]

\* A call of sendVisionUpdate as a step: its effect on the relay state.
\* lastCall keeps what the call was given and what it did: publish is
\* "none" (publishData not called), "ok" (it returned) or "threw".
Relay(insight, forceNow, connected, publishOk) ==
    LET r == sendVisionUpdate(insight, forceNow, roomRef, connected, publishOk)
    IN  /\ pendingInsightRef' = r.pending
        /\ sent' = IF r.publish = "ok" THEN Append(sent, insight) ELSE sent
        /\ lastCall' = Some([forceNow |-> forceNow, publish |-> r.publish,
                             ret |-> r.ret, raised |-> r.raised,
                             seq |-> IF lastCall = Null THEN 0 ELSE 1 - lastCall[1].seq])

----------------------------------------------------------------------------
(* Timers *)

\* Mutant: clearTimeout cancels nothing.
clearTimeout_nothing(id) == timers

clearTimeout(id) == {t \in timers : t.id # id}

----------------------------------------------------------------------------
(* Inputs *)

T_EMPTY == <<>>
T_WIDE  == << "W", "i", "d", "e", " ", "s", "h", "o", "t" >>
T_wide  == << "w", "i", "d", "e", " ", " ", "s", "h", "o", "t" >>
T_DARK  == << "d", "a", "r", "k" >>
T_SHORT == << "a", " ", "o", "f" >>

Texts == {T_WIDE, T_wide, T_DARK}

Json(t) == RawResult(TRUE, "json", t)

Failures ==
    {RawResult(FALSE, "empty", T_EMPTY), RawResult(TRUE, "empty", T_EMPTY),
     RawResult(TRUE, "nobrace", T_EMPTY), RawResult(TRUE, "undecodable", T_EMPTY)}

Results == Failures \cup {Json(t) : t \in Texts}

\* Two results that differ, one that repeats the first and one failure
FewResults == {Json(T_WIDE), Json(T_wide), Json(T_DARK), RawResult(FALSE, "empty", T_EMPTY)}

\* Two results that differ and one failure
TwoResults == {Json(T_WIDE), Json(T_DARK), RawResult(TRUE, "nobrace", T_EMPTY)}

----------------------------------------------------------------------------
(* The initial state: the hook has mounted with enabled = false and         *)
(* isConnected = false, and its mount effects have run.                     *)

Init ==
    /\ roomRef = "null"
    /\ enabled = FALSE
    /\ isConnected = FALSE
    /\ connDeps = FALSE
    /\ lensDeps = "geometry"
    /\ autoDeps = << FALSE, FALSE >>
    /\ mounted = TRUE
    /\ lens = "geometry"
    /\ visionStatus = "idle"
    /\ latestInsight = Null
    /\ insightLog = <<>>
    /\ isStreaming = FALSE
    /\ error = "null"
    /\ visionRef = 0
    /\ lastAnalysisRef = T_EMPTY
    /\ staleTimerRef = 0
    /\ currentLensRef = "geometry"
    /\ pendingInsightRef = Null
    /\ isConnectedRef = FALSE
    /\ inst = [i \in 1..MaxInst |-> [st |-> "unused", prompt |-> <<>>]]
    /\ stopping = [i \in 1..MaxInst |-> 0]
    /\ timers = {}
    /\ now = 0
    /\ credentials \in BOOLEAN
    /\ accepted = <<>>
    /\ sent = <<>>
    /\ lastCall = Null
    /\ lastResult = Null
    /\ resetSince = FALSE

----------------------------------------------------------------------------
(* processVisionResult *)

\* What processVisionResult does with result when the dedup memory is last:
\* "error" and "unparsed" and "duplicate" are its three early returns.
outcomeOf(result, last) ==
    IF ~result.ok \/ result.form = "empty" THEN "error"
    ELSE IF parseVisionResponse(result) = Null THEN "unparsed"
    ELSE IF isDuplicate(calculateSimilarity(parseVisionResponse(result)[1].analysis, last))
         THEN "duplicate"
    ELSE "accepted"

\* The similarity processVisionResult computes for result (line 274), Zero
\* when it returns before that line.
similarityOf(result, last) ==
    IF outcomeOf(result, last) \in {"error", "unparsed"} THEN Zero
    ELSE calculateSimilarity(parseVisionResponse(result)[1].analysis, last)

\* The recorded result, marked: a lens change or a stop came after it.
interrupted(lr) ==
    IF lr = Null THEN Null ELSE Some([lr[1] EXCEPT !.interrupted = TRUE])

\* The recorded result, marked: a changeLens call came after it.  The mark
\* stays until a result that parses is processed.
switched(lr) ==
    IF lr = Null THEN Null
    ELSE Some([lr[1] EXCEPT !.interrupted = TRUE, !.lensChanged = TRUE])

\* Mutant: a duplicate renews the freshness and its timer.
processVisionResult_refreshOnDuplicate(i, result, publishOk) ==
    /\ inst[i].st \in {"running", "stopping"}
    /\ LET visionData == parseVisionResponse(result)
           insight    == [data |-> visionData[1], lens |-> currentLensRef,
                          timestamp |-> now, id |-> Len(accepted) + 1]
       IN  IF outcomeOf(result, lastAnalysisRef) = "accepted"
           THEN /\ lastAnalysisRef' = visionData[1].analysis
                /\ latestInsight' = Some(insight)
                /\ insightLog' = prepend(insight, insightLog)
                /\ visionStatus' = "fresh"
                /\ Relay(insight, FALSE, isConnectedRef, publishOk)
                /\ timers' = (IF staleTimerRef # 0 THEN clearTimeout(staleTimerRef) ELSE timers)
                             \cup {[id |-> insight.id, due |-> now + STALE_MS]}
                /\ staleTimerRef' = insight.id
                /\ accepted' = Append(accepted, insight)
                /\ resetSince' = FALSE
           ELSE IF outcomeOf(result, lastAnalysisRef) = "duplicate"
           THEN /\ visionStatus' = "fresh"
                /\ timers' = (IF staleTimerRef # 0 THEN clearTimeout(staleTimerRef) ELSE timers)
                             \cup {[id |-> insight.id, due |-> now + STALE_MS]}
                /\ staleTimerRef' = insight.id
                /\ UNCHANGED << lastAnalysisRef, insightVars, relayVars, resetSince >>
           ELSE UNCHANGED << lastAnalysisRef, insightVars, visionStatus, relayVars,
                             timerVars, resetSince >>
    /\ UNCHANGED << pageVars, lens, isStreaming, error, visionRef, currentLensRef,
                    isConnectedRef, inst, stopping, now, credentials >>

\* processVisionResult(result); publishOk is the outcome of publishData
\* should sendVisionUpdate reach it.  It leaves lastResult to its caller.
processResult(result, publishOk) ==
    /\ LET visionData == parseVisionResponse(result)
           insight    == [data |-> visionData[1], lens |-> currentLensRef,
                          timestamp |-> now, id |-> Len(accepted) + 1]
       IN  IF outcomeOf(result, lastAnalysisRef) = "accepted"
           THEN /\ lastAnalysisRef' = visionData[1].analysis
                /\ latestInsight' = Some(insight)
                /\ insightLog' = prepend(insight, insightLog)
                /\ visionStatus' = "fresh"
                /\ Relay(insight, FALSE, isConnectedRef, publishOk)
                /\ timers' = (IF staleTimerRef # 0 THEN clearTimeout(staleTimerRef) ELSE timers)
                             \cup {[id |-> insight.id, due |-> now + STALE_MS]}
                /\ staleTimerRef' = insight.id
                /\ accepted' = Append(accepted, insight)
                /\ resetSince' = FALSE
           ELSE UNCHANGED << lastAnalysisRef, insightVars, visionStatus, relayVars,
                             timerVars, resetSince >>
    /\ UNCHANGED << pageVars, lens, isStreaming, error, visionRef, currentLensRef,
                    isConnectedRef, inst, stopping, now, credentials >>

\* The onResult callback of instance i, which was started and whose stop()
\* has not resolved, delivers result.
processVisionResult(i, result, publishOk) ==
    /\ inst[i].st \in {"running", "stopping"}
    /\ processResult(result, publishOk)

\* A result arrives; the run does not record it.
onResult(i, result, publishOk) ==
    /\ processVisionResult(i, result, publishOk)
    /\ UNCHANGED lastResult

\* The number of results the run has recorded
Observed == IF lastResult = Null THEN 0 ELSE lastResult[1].seq

\* The record of result being processed now
observed(result) ==
    Some([result |-> result, last |-> lastAnalysisRef,
          outcome |-> outcomeOf(result, lastAnalysisRef),
          similarity |-> similarityOf(result, lastAnalysisRef),
          interrupted |-> FALSE,
          lensChanged |-> /\ lastResult # Null
                          /\ lastResult[1].lensChanged
                          /\ outcomeOf(result, lastAnalysisRef)
                               \in {"error", "unparsed"},
          seq |-> Observed + 1])

\* A result arrives; the run records it and what became of it.
onResultObserved(i, result, publishOk) ==
    /\ processVisionResult(i, result, publishOk)
    /\ lastResult' = observed(result)

\* The onResult callback of instance i delivers result after stop() has
\* resolved: a response that was under way when the session was stopped.
lateResult(i, result, publishOk) ==
    /\ inst[i].st = "stopped"
    /\ processResult(result, publishOk)
    /\ lastResult' = observed(result)

\* The stale-transition timer t goes off.
staleTimeout(t) ==
    /\ t \in timers
    /\ t.due <= now
    /\ timers' = timers \ {t}
    /\ visionStatus' = "stale"
    /\ UNCHANGED << pageVars, lens, insightVars, isStreaming, error, visionRef,
                    lastAnalysisRef, staleTimerRef, currentLensRef, relayVars,
                    isConnectedRef, inst, stopping, now, credentials, lastResult,
                    resetSince >>

\* Time passes; a timer that is due goes off before time passes further.
Tick ==
    /\ now + TickMs <= MaxTime
    /\ \A t \in timers : t.due > now
    /\ now' = now + TickMs
    /\ UNCHANGED << pageVars, lens, visionStatus, insightVars, isStreaming, error,
                    visionRef, lastAnalysisRef, timerVars, currentLensRef, relayVars,
                    isConnectedRef, inst, stopping, credentials, lastResult, resetSince >>

----------------------------------------------------------------------------
(* The page: the room and the isConnected prop *)

\* connectToRoom: roomRef.current = new Room()
connectToRoom(room) ==
    /\ roomRef = "null"
    /\ roomRef' = room
    /\ UNCHANGED << enabled, isConnected, connDeps, lensDeps, autoDeps, mounted,
                    lens, visionStatus, insightVars, isStreaming, error,
                    visionRef, lastAnalysisRef, timerVars, currentLensRef, relayVars,
                    isConnectedRef, inst, stopping, now, credentials, lastResult,
                    resetSince >>

\* RoomEvent.ConnectionStateChanged, and the end of room.connect()
setIsConnected(b) ==
    /\ roomRef # "null"
    /\ isConnected # b
    /\ isConnected' = b
    /\ UNCHANGED << roomRef, enabled, connDeps, lensDeps, autoDeps, mounted,
                    lens, visionStatus, insightVars, isStreaming, error,
                    visionRef, lastAnalysisRef, timerVars, currentLensRef, relayVars,
                    isConnectedRef, inst, stopping, now, credentials, lastResult,
                    resetSince >>

disconnectFromRoom ==
    /\ roomRef # "null"
    /\ roomRef' = "null"
    /\ isConnected' = FALSE
    /\ UNCHANGED << enabled, connDeps, lensDeps, autoDeps, mounted,
                    lens, visionStatus, insightVars, isStreaming, error,
                    visionRef, lastAnalysisRef, timerVars, currentLensRef, relayVars,
                    isConnectedRef, inst, stopping, now, credentials, lastResult,
                    resetSince >>

\* Mutant: the effects sync the ref but do not flush the pending insight.
connectedEffects_noFlush(publishOk) ==
    /\ mounted
    /\ isConnected # connDeps
    /\ connDeps' = isConnected
    /\ isConnectedRef' = isConnected
    /\ UNCHANGED relayVars
    /\ UNCHANGED << roomRef, enabled, isConnected, lensDeps, autoDeps, mounted,
                    lens, visionStatus, insightVars, isStreaming, error,
                    visionRef, lastAnalysisRef, timerVars, currentLensRef,
                    inst, stopping, now, credentials, lastResult, resetSince >>

\* Mutant: the flush runs before the ref sync and is not forced.
connectedEffects_flushFirst(publishOk) ==
    /\ mounted
    /\ isConnected # connDeps
    /\ connDeps' = isConnected
    /\ isConnectedRef' = isConnected
    /\ IF isConnected /\ pendingInsightRef # Null
       THEN Relay(pendingInsightRef[1], FALSE, isConnectedRef, publishOk)
       ELSE UNCHANGED relayVars
    /\ UNCHANGED << roomRef, enabled, isConnected, lensDeps, autoDeps, mounted,
                    lens, visionStatus, insightVars, isStreaming, error,
                    visionRef, lastAnalysisRef, timerVars, currentLensRef,
                    inst, stopping, now, credentials, lastResult, resetSince >>

\* The two effects with dependency isConnected, run in declaration order
\* after a render in which isConnected differs from the previous render:
\* the ref sync, then the flush of the pending insight.
connectedEffects(publishOk) ==
    /\ mounted
    /\ isConnected # connDeps
    /\ connDeps' = isConnected
    /\ isConnectedRef' = isConnected
    /\ IF isConnected /\ pendingInsightRef # Null
       THEN Relay(pendingInsightRef[1], TRUE, isConnected, publishOk)
       ELSE UNCHANGED relayVars
    /\ UNCHANGED << roomRef, enabled, isConnected, lensDeps, autoDeps, mounted,
                    lens, visionStatus, insightVars, isStreaming, error,
                    visionRef, lastAnalysisRef, timerVars, currentLensRef,
                    inst, stopping, now, credentials, lastResult, resetSince >>

----------------------------------------------------------------------------
(* Session lifecycle *)

Unused == {i \in 1..MaxInst : inst[i].st = "unused"}

\* The synchronous part of startVision, up to `await vision.start()`.
\* What it changes: error and inst.
startVision ==
    IF ~credentials
    THEN /\ error' = "Vision start failed: Overshoot API credentials not configured"
         /\ inst' = inst
    ELSE /\ Unused # {}
         /\ LET i == CHOOSE j \in Unused : \A k \in Unused : j <= k
            IN  inst' = [inst EXCEPT ![i] = [st |-> "starting",
                                             prompt |-> LENS_PROMPTS[currentLensRef]]]
         /\ error' = error

\* vision.start() of instance i resolves and startVision runs to its end.
startResolved(i) ==
    /\ inst[i].st = "starting"
    /\ inst' = [inst EXCEPT ![i].st = "running"]
    /\ visionRef' = i
    /\ isStreaming' = TRUE
    /\ visionStatus' = "idle"
    /\ error' = "null"
    /\ resetSince' = TRUE
    /\ UNCHANGED << pageVars, lens, insightVars, lastAnalysisRef, timerVars,
                    currentLensRef, relayVars, isConnectedRef, stopping, now,
                    credentials, lastResult >>

\* Mutant: the catch block only logs.
startRejected_silent(i) ==
    /\ inst[i].st = "starting"
    /\ inst' = [inst EXCEPT ![i].st = "failed"]
    /\ error' = error
    /\ UNCHANGED << pageVars, lens, visionStatus, insightVars, isStreaming,
                    visionRef, lastAnalysisRef, timerVars, currentLensRef, relayVars,
                    isConnectedRef, stopping, now, credentials, lastResult, resetSince >>

\* vision.start() of instance i rejects; the catch block sets the error.
startRejected(i) ==
    /\ inst[i].st = "starting"
    /\ inst' = [inst EXCEPT ![i].st = "failed"]
    /\ error' = "Vision start failed"
    /\ UNCHANGED << pageVars, lens, visionStatus, insightVars, isStreaming,
                    visionRef, lastAnalysisRef, timerVars, currentLensRef, relayVars,
                    isConnectedRef, stopping, now, credentials, lastResult, resetSince >>

\* The onError callback of instance i.
onError(i) ==
    /\ inst[i].st \in {"running", "stopping"}
    /\ error' = "Vision error"
    /\ UNCHANGED << pageVars, lens, visionStatus, insightVars, isStreaming,
                    visionRef, lastAnalysisRef, timerVars, currentLensRef, relayVars,
                    isConnectedRef, inst, stopping, now, credentials, lastResult,
                    resetSince >>

\* stopVision after the `if (visionRef.current)` block: lines 370-378.
\* What it changes: timers, staleTimerRef, isStreaming, visionStatus,
\* lastAnalysisRef (and the mark on lastResult).
stopVisionTail ==
    /\ timers' = IF staleTimerRef # 0 THEN clearTimeout(staleTimerRef) ELSE timers
    /\ staleTimerRef' = 0
    /\ isStreaming' = FALSE
    /\ visionStatus' = "idle"
    /\ lastAnalysisRef' = T_EMPTY
    /\ resetSince' = TRUE
    /\ lastResult' = interrupted(lastResult)

\* The synchronous part of stopVision: with a handle it calls stop() and
\* suspends; without one it runs to its end.
stopVision ==
    IF visionRef # 0
    THEN /\ stopping[visionRef] < MaxStops
         /\ stopping' = [stopping EXCEPT ![visionRef] = @ + 1]
         /\ inst' = [inst EXCEPT ![visionRef].st =
                        IF @ \in {"running", "stopping"} THEN "stopping" ELSE @]
         /\ UNCHANGED << timerVars, isStreaming, visionStatus, lastAnalysisRef,
                         resetSince, visionRef, lastResult >>
    ELSE /\ stopVisionTail
         /\ UNCHANGED << stopping, inst, visionRef >>

\* stop() of instance i resolves; the suspended stopVision runs to its end.
stopResolved(i) ==
    /\ stopping[i] > 0
    /\ stopping' = [stopping EXCEPT ![i] = @ - 1]
    /\ inst' = [inst EXCEPT ![i].st = "stopped"]
    /\ visionRef' = 0
    /\ stopVisionTail
    /\ UNCHANGED << pageVars, lens, insightVars, error, currentLensRef, relayVars,
                    isConnectedRef, now, credentials >>

\* stop() of instance i rejects; the suspended stopVision ends there.
stopRejected(i) ==
    /\ stopping[i] > 0
    /\ inst[i].st = "stopping"
    /\ stopping' = [stopping EXCEPT ![i] = @ - 1]
    /\ inst' = [inst EXCEPT ![i].st = IF stopping[i] = 1 THEN "running" ELSE @]
    /\ UNCHANGED << pageVars, lens, visionStatus, insightVars, isStreaming, error,
                    visionRef, lastAnalysisRef, timerVars, currentLensRef, relayVars,
                    isConnectedRef, now, credentials, lastResult, resetSince >>

\* The parent changes the enabled prop.
setEnabled ==
    /\ mounted
    /\ enabled' = ~enabled
    /\ UNCHANGED << roomRef, isConnected, connDeps, lensDeps, autoDeps, mounted,
                    lens, visionStatus, insightVars, isStreaming, error,
                    visionRef, lastAnalysisRef, timerVars, currentLensRef, relayVars,
                    isConnectedRef, inst, stopping, now, credentials, lastResult,
                    resetSince >>

\* The auto start/stop effect, run after a render in which enabled or
\* isStreaming differs from the previous render.
autoEffect ==
    /\ mounted
    /\ << enabled, isStreaming >> # autoDeps
    /\ autoDeps' = << enabled, isStreaming >>
    /\ IF enabled /\ ~isStreaming
       THEN /\ startVision
            /\ UNCHANGED << stopping, timerVars, isStreaming, visionStatus,
                            lastAnalysisRef, resetSince, visionRef, lastResult >>
       ELSE IF ~enabled /\ isStreaming
       THEN /\ stopVision
            /\ UNCHANGED error
       ELSE UNCHANGED << inst, error, stopping, timerVars, isStreaming, visionStatus,
                         lastAnalysisRef, resetSince, visionRef, lastResult >>
    /\ UNCHANGED << roomRef, enabled, isConnected, connDeps, lensDeps, mounted,
                    lens, insightVars, currentLensRef, relayVars,
                    isConnectedRef, now, credentials >>

\* The hook unmounts: the cleanup effect calls stopVision.
unmount ==
    /\ mounted
    /\ mounted' = FALSE
    /\ stopVision
    /\ UNCHANGED << roomRef, enabled, isConnected, connDeps, lensDeps, autoDeps,
                    lens, insightVars, error, currentLensRef, relayVars,
                    isConnectedRef, now, credentials >>

\* RealtimeVision.updatePrompt(prompt) on instance i
updatePrompt(i, prompt) == [inst EXCEPT ![i].prompt = prompt]

\* Mutant: the dedup memory survives the lens change.
changeLens_keepMemory(newLens) ==
    /\ mounted
    /\ lens' = newLens
    /\ currentLensRef' = newLens
    /\ lastAnalysisRef' = lastAnalysisRef
    /\ inst' = IF visionRef # 0 /\ isStreaming
               THEN updatePrompt(visionRef, LENS_PROMPTS[newLens])
               ELSE inst
    /\ lastResult' = switched(lastResult)
    /\ UNCHANGED << pageVars, visionStatus, insightVars, isStreaming, error,
                    visionRef, timerVars, relayVars, isConnectedRef, stopping, now,
                    credentials, resetSince >>

\* Mutant: the ref is left to the [lens] effect.
changeLens_stateOnly(newLens) ==
    /\ mounted
    /\ lens' = newLens
    /\ currentLensRef' = currentLensRef
    /\ lastAnalysisRef' = T_EMPTY
    /\ inst' = IF visionRef # 0 /\ isStreaming
               THEN updatePrompt(visionRef, LENS_PROMPTS[newLens])
               ELSE inst
    /\ lastResult' = switched(lastResult)
    /\ UNCHANGED << pageVars, visionStatus, insightVars, isStreaming, error,
                    visionRef, timerVars, relayVars, isConnectedRef, stopping, now,
                    credentials, resetSince >>

\* Mutant: the prompt sent is that of the lens being left.
changeLens_oldPrompt(newLens) ==
    /\ mounted
    /\ lens' = newLens
    /\ currentLensRef' = newLens
    /\ lastAnalysisRef' = T_EMPTY
    /\ inst' = IF visionRef # 0 /\ isStreaming
               THEN updatePrompt(visionRef, LENS_PROMPTS[lens])
               ELSE inst
    /\ lastResult' = switched(lastResult)
    /\ UNCHANGED << pageVars, visionStatus, insightVars, isStreaming, error,
                    visionRef, timerVars, relayVars, isConnectedRef, stopping, now,
                    credentials, resetSince >>

\* changeLens(newLens), up to `await updatePrompt`
changeLens(newLens) ==
    /\ mounted
    /\ lens' = newLens
    /\ currentLensRef' = newLens
    /\ lastAnalysisRef' = T_EMPTY
    /\ inst' = IF visionRef # 0 /\ isStreaming
               THEN updatePrompt(visionRef, LENS_PROMPTS[newLens])
               ELSE inst
    /\ lastResult' = switched(lastResult)
    /\ UNCHANGED << pageVars, visionStatus, insightVars, isStreaming, error,
                    visionRef, timerVars, relayVars, isConnectedRef, stopping, now,
                    credentials, resetSince >>

\* The effect with dependency lens, run after a render in which lens
\* differs from the previous render: it copies lens to the ref.
lensEffect ==
    /\ mounted
    /\ lens # lensDeps
    /\ lensDeps' = lens
    /\ currentLensRef' = lens
    /\ UNCHANGED << roomRef, enabled, isConnected, connDeps, autoDeps, mounted,
                    lens, visionStatus, insightVars, isStreaming, error,
                    visionRef, lastAnalysisRef, timerVars, relayVars,
                    isConnectedRef, inst, stopping, now, credentials, lastResult,
                    resetSince >>

----------------------------------------------------------------------------

Next ==
    \/ \E room \in {"ready", "noParticipant"} : connectToRoom(room)
    \/ \E b \in BOOLEAN : setIsConnected(b)
    \/ disconnectFromRoom
    \/ \E ok \in BOOLEAN : connectedEffects(ok)
    \/ setEnabled
    \/ autoEffect
    \/ \E i \in 1..MaxInst : startResolved(i)
    \/ \E i \in 1..MaxInst : startRejected(i)
    \/ \E i \in 1..MaxInst : onError(i)
    \/ \E i \in 1..MaxInst : stopResolved(i)
    \/ \E i \in 1..MaxInst : stopRejected(i)
    \/ unmount
    \/ \E l \in Lenses : changeLens(l)
    \/ lensEffect
    \/ /\ Observed < MaxAccepted
       /\ \E i \in 1..MaxInst, r \in Results, ok \in BOOLEAN : onResultObserved(i, r, ok)
    \/ /\ Observed < MaxAccepted
       /\ \E i \in 1..MaxInst, r \in Results, ok \in BOOLEAN : lateResult(i, r, ok)
    \/ \E t \in timers : staleTimeout(t)
    \/ Tick

\* The whole system.  Its reachable states are too many to enumerate; the
\* specifications below each take the actions that read or write one part
\* of the state and leave the rest of the environment still.
Spec == Init /\ [][Next]_vars

----------------------------------------------------------------------------
(* A streaming session: the state Spec reaches by setEnabled, autoEffect    *)
(* and startResolved(1).                                                    *)

InitStreaming ==
    /\ roomRef = "null"
    /\ enabled = TRUE
    /\ isConnected = FALSE
    /\ connDeps = FALSE
    /\ lensDeps = "geometry"
    /\ autoDeps = << TRUE, TRUE >>
    /\ mounted = TRUE
    /\ lens = "geometry"
    /\ visionStatus = "idle"
    /\ latestInsight = Null
    /\ insightLog = <<>>
    /\ isStreaming = TRUE
    /\ error = "null"
    /\ visionRef = 1
    /\ lastAnalysisRef = T_EMPTY
    /\ staleTimerRef = 0
    /\ currentLensRef = "geometry"
    /\ pendingInsightRef = Null
    /\ isConnectedRef = FALSE
    /\ inst = [i \in 1..MaxInst |->
                 IF i = 1 THEN [st |-> "running", prompt |-> LENS_PROMPTS["geometry"]]
                 ELSE [st |-> "unused", prompt |-> <<>>]]
    /\ stopping = [i \in 1..MaxInst |-> 0]
    /\ timers = {}
    /\ now = 0
    /\ credentials = TRUE
    /\ accepted = <<>>
    /\ sent = <<>>
    /\ lastCall = Null
    /\ lastResult = Null
    /\ resetSince = TRUE

(* The relay: a streaming session, the room and the connected flag. *)
NextRelay ==
    \/ \E room \in {"ready", "noParticipant"} : connectToRoom(room)
    \/ \E b \in BOOLEAN : setIsConnected(b)
    \/ disconnectFromRoom
    \/ \E ok \in BOOLEAN : connectedEffects(ok)
    \/ unmount
    \/ \E i \in 1..MaxInst : stopResolved(i)
    \/ /\ Len(accepted) < MaxAccepted
       /\ \E i \in 1..MaxInst, r \in FewResults, ok \in BOOLEAN : onResult(i, r, ok)

SpecRelay == InitStreaming /\ [][NextRelay]_vars

(* The flush: the relay, with the page changing the connection only after  *)
(* the effects of its previous change have run, as they do between two     *)
(* renders.                                                                 *)
NextFlush ==
    \/ \E room \in {"ready", "noParticipant"} : connectToRoom(room)
    \/ /\ connDeps = isConnected
       /\ \E b \in BOOLEAN : setIsConnected(b)
    \/ /\ connDeps = isConnected
       /\ disconnectFromRoom
    \/ \E ok \in BOOLEAN : connectedEffects(ok)
    \/ /\ Len(accepted) < MaxAccepted
       /\ \E r \in FewResults, ok \in BOOLEAN : onResult(1, r, ok)

SpecFlush == InitStreaming /\ [][NextFlush]_vars

(* Freshness: the session lifecycle, the results and the clock. *)
Started == MaxInst - Cardinality(Unused)

NextFresh ==
    \/ setEnabled
    \/ /\ (enabled /\ ~isStreaming) => Started < MaxStarts
       /\ autoEffect
    \/ \E i \in 1..MaxInst : startResolved(i)
    \/ \E i \in 1..MaxInst : startRejected(i)
    \/ \E i \in 1..MaxInst : stopResolved(i)
    \/ \E i \in 1..MaxInst : stopRejected(i)
    \/ unmount
    \/ /\ Len(accepted) < MaxFresh
       /\ \E i \in 1..MaxInst, r \in TwoResults : onResult(i, r, TRUE)
    \/ \E t \in timers : staleTimeout(t)
    \/ Tick

SpecFresh == Init /\ [][NextFresh]_vars

(* The history log: a long streaming session whose results alternate. *)
HistoryResults(n) ==
    {IF n % 2 = 0 THEN Json(T_WIDE) ELSE Json(T_DARK), RawResult(TRUE, "nobrace", T_EMPTY)}

NextHistory ==
    \/ /\ Len(accepted) < MaxLogRun
       /\ \E r \in HistoryResults(Len(accepted)) : onResult(1, r, TRUE)
    \/ setEnabled
    \/ autoEffect
    \/ \E i \in 1..MaxInst : stopResolved(i)

SpecHistory == InitStreaming /\ [][NextHistory]_vars

(* Deduplication: a streaming session with a joined, connected room and    *)
(* results whose analysis texts share tokens to every degree.              *)

Words == << << "a", "a", "a" >>, << "b", "b", "b", "b" >>, << "c", "c", "c" >>,
            << "d", "d", "d" >>, << "e", "e", "e" >>, << "f", "f", "f" >> >>

RECURSIVE join(_, _)
join(ws, sep) ==
    IF Len(ws) = 0 THEN <<>>
    ELSE IF Len(ws) = 1 THEN ws[1]
    ELSE ws[1] \o sep \o join(Tail(ws), sep)

Prefix(k) == join(SubSeq(Words, 1, k), << " " >>)

DedupTexts ==
    {Prefix(k) : k \in 0..6}
    \cup { join(<< Words[2], Words[1] >>, << " ", "\t" >>),
           join(<< Words[5], Words[4], Words[3], Words[2], Words[1] >>, << "\n" >>),
           << " " >> \o Prefix(5) \o << " " >>,
           << "A", "a", "A", " ", "B", "B", "b", "b", " ", "C", "c", "c", " ",
              "D", "D", "D", " ", "E", "E", "E" >>,
           << "a", "a", " ", "b", "b" >>,
           << "a", "a", "a", " ", "a", "a", "a" >>,
           << "a", "a", "a", "b", "b", "b", "b" >>,
           << " ", "\t" >>,
           << "o", "f", " ", "a", "a", "a" >>,
           << "o", "f" >> }

DedupResults == {Json(t) : t \in DedupTexts} \cup {RawResult(TRUE, "undecodable", T_EMPTY)}

InitDedup ==
    /\ roomRef = "ready"
    /\ enabled = TRUE
    /\ isConnected = TRUE
    /\ connDeps = TRUE
    /\ lensDeps = "geometry"
    /\ autoDeps = << TRUE, TRUE >>
    /\ mounted = TRUE
    /\ lens = "geometry"
    /\ visionStatus = "idle"
    /\ latestInsight = Null
    /\ insightLog = <<>>
    /\ isStreaming = TRUE
    /\ error = "null"
    /\ visionRef = 1
    /\ lastAnalysisRef = T_EMPTY
    /\ staleTimerRef = 0
    /\ currentLensRef = "geometry"
    /\ pendingInsightRef = Null
    /\ isConnectedRef = TRUE
    /\ inst = [i \in 1..MaxInst |->
                 IF i = 1 THEN [st |-> "running", prompt |-> LENS_PROMPTS["geometry"]]
                 ELSE [st |-> "unused", prompt |-> <<>>]]
    /\ stopping = [i \in 1..MaxInst |-> 0]
    /\ timers = {}
    /\ now = 0
    /\ credentials = TRUE
    /\ accepted = <<>>
    /\ sent = <<>>
    /\ lastCall = Null
    /\ lastResult = Null
    /\ resetSince = TRUE

NextDedup ==
    \/ /\ Observed < MaxDedup
       /\ \E r \in DedupResults : onResultObserved(1, r, TRUE)
    \/ \E l \in Lenses : changeLens(l)
    \/ unmount
    \/ \E i \in 1..MaxInst : stopResolved(i)

SpecDedup == InitDedup /\ [][NextDedup]_vars

(* The lens: a session whose lens the user switches before it starts,      *)
(* while it streams and after it stops; enabled is not switched off a      *)
(* second time while a stop is under way.                                   *)

\* A result that is accepted unless it repeats, and one that does not parse
LensResults == {Json(T_WIDE), RawResult(TRUE, "nobrace", T_EMPTY)}

NextLens ==
    \/ \E l \in Lenses : changeLens(l)
    \/ lensEffect
    \/ /\ Observed < MaxSession
       /\ \E i \in 1..MaxInst, r \in LensResults : onResultObserved(i, r, TRUE)
    \/ setEnabled
    \/ /\ (enabled /\ ~isStreaming) => Started < MaxStarts
       /\ (~enabled /\ isStreaming /\ visionRef # 0) => stopping[visionRef] = 0
       /\ autoEffect
    \/ \E i \in 1..MaxInst : startResolved(i)
    \/ \E i \in 1..MaxInst : stopResolved(i)

SpecLens == Init /\ [][NextLens]_vars

(* Sessions: the lifecycle, the collaborator's errors and a few results,   *)
(* with no room to relay to.                                                *)

\* A result that is accepted unless it repeats, and one that failed
SessionResults == {Json(T_WIDE), RawResult(FALSE, "empty", T_EMPTY)}

NextSession ==
    \/ setEnabled
    \/ autoEffect
    \/ \E i \in 1..MaxInst : startResolved(i)
    \/ \E i \in 1..MaxInst : startRejected(i)
    \/ \E i \in 1..MaxInst : onError(i)
    \/ \E i \in 1..MaxInst : stopResolved(i)
    \/ \E i \in 1..MaxInst : stopRejected(i)
    \/ /\ Observed < MaxSession
       /\ \E i \in 1..MaxInst, r \in SessionResults : onResultObserved(i, r, TRUE)

SpecSession == Init /\ [][NextSession]_vars

(* After the stop: one session at a time, whose collaborator may deliver   *)
(* a response that was under way when stop() resolved.                     *)
NextLate ==
    \/ setEnabled
    \/ /\ (enabled /\ ~isStreaming) => Started < MaxStarts
       /\ autoEffect
    \/ \E i \in 1..MaxInst : startResolved(i)
    \/ \E i \in 1..MaxInst : stopResolved(i)
    \/ /\ Observed < MaxSession
       /\ \E i \in 1..MaxInst, r \in LensResults : onResultObserved(i, r, TRUE)
    \/ /\ Observed < MaxSession
       /\ \E i \in 1..MaxInst, r \in LensResults : lateResult(i, r, TRUE)
    \/ \E t \in timers : staleTimeout(t)
    \/ Tick

SpecLate == Init /\ [][NextLate]_vars

(* Parsing: a streaming session that receives one response, whose score   *)
(* and overlays members are of every kind JSON allows.                      *)

Half == Num(5)

ScoreInputs ==
    {Undefined, JSNull, Text, EmptyStr, True, NumStr(80),
     Num(-30), Num(0), Num(5), Num(10), Num(70), Num(79), Num(100), Num(110), Num(250)}

CoordInputs ==
    {Num(-5), Num(0), Num(3), Num(10), Num(15), JSNull, NumStr(5), Text, True, Object}

CoordArrays ==
    {<<>>, << Half >>, << Half, Half >>, << Half, Half, Half >>}
    \cup {<< c, Half, Half, Half >> : c \in CoordInputs}
    \cup {<< Half, Half, c, Half >> : c \in CoordInputs}
    \cup {<< Half, Half, Half, c >> : c \in CoordInputs}

ConnectionInputs ==
    {Undefined, JSNull, NumStr(10), Text, True,
     Num(-10), Num(0), Num(10), Num(15), Num(20)}

CoordEntries ==
    {Entry("obj", TypeStr("subject_highlight"), "", << cs >>, -1, Undefined, "") :
        cs \in CoordArrays}
    \cup {Entry("obj", TypeStr("subject_highlight"), "", <<>>, -1, Undefined, "")}

ConnectionEntries ==
    {Entry("obj", TypeStr("story_subject"), "", << << Half, Half, Half, Half >> >>,
           4, c, "primary") : c \in ConnectionInputs}

MiscEntries ==
    {NullEntry, NumberEntry, StringEntry,
     Entry("obj", NoType, "match", <<>>, -1, Undefined, ""),
     Entry("obj", NumType, "", <<>>, -1, Undefined, ""),
     Entry("obj", TypeStr(""), "", <<>>, -1, Undefined, ""),
     Entry("obj", TypeStr("rule_of_thirds"), "match", <<>>, -1, Undefined, ""),
     Entry("obj", TypeStr("story_subject"), "", <<>>, 60, Undefined, "hero")}

ParseBatches ==
    {<<>>}
    \cup {<< e >> : e \in CoordEntries \cup ConnectionEntries \cup MiscEntries}
    \cup {<< e, f >> : e \in MiscEntries, f \in MiscEntries}

ParseResults ==
    {RawJson(TRUE, "json", T_WIDE, sc, <<>>) : sc \in ScoreInputs}
    \cup {RawJson(TRUE, "json", T_WIDE, Undefined, << b >>) : b \in ParseBatches}
    \cup {RawJson(TRUE, f, T_WIDE, Num(70), <<>>) : f \in {"fenced", "embedded"}}
    \cup Failures

NextParse ==
    /\ Observed < MaxParse
    /\ \E r \in ParseResults : onResultObserved(1, r, TRUE)

SpecParse == InitDedup /\ [][NextParse]_vars

(* Rendering: a streaming session that receives one response, whose        *)
(* overlays are story subjects that name each other among overlays of the  *)
(* other types.  The components are functions of the overlays of the       *)
(* latest insight and of the size of the container.                        *)

Box == << Num(1), Num(2), Num(3), Num(4) >>

Story(connection) ==
    Entry("obj", TypeStr("story_subject"), "", << Box >>, 4, connection, "primary")

Highlight == Entry("obj", TypeStr("subject_highlight"), "", << Box >>, -1, Undefined, "")

StoryEntries == {Story(Undefined), Story(Num(0)), Story(Num(10)), Story(Num(20))}

OverlayEntries ==
    StoryEntries
    \cup {Story(Num(15)), Highlight,
          Entry("obj", TypeStr("story_subject"), "", <<>>, 4, Undefined, "context"),
          Entry("obj", TypeStr("subject_highlight"), "", <<>>, -1, Undefined, ""),
          Entry("obj", TypeStr("focus_point"), "",
                << << Num(6), Num(7), Num(0), Num(0) >> >>, -1, Undefined, ""),
          Entry("obj", TypeStr("rule_of_thirds"), "match", <<>>, -1, Undefined, ""),
          Entry("obj", TypeStr("direction"), "left", <<>>, -1, Undefined, "")}

OverlayBatches ==
    {<<>>}
    \cup {<< e >> : e \in OverlayEntries}
    \cup {<< e, f >> : e \in OverlayEntries, f \in OverlayEntries}
    \cup {<< e, f, g >> : e \in StoryEntries \cup {Highlight},
                          f \in StoryEntries \cup {Highlight},
                          g \in StoryEntries \cup {Highlight}}

OverlayResults ==
    {RawJson(TRUE, "json", T_WIDE, Num(70), << b >>) : b \in OverlayBatches}

NextOverlay ==
    /\ Observed < MaxParse
    /\ \E r \in OverlayResults : onResultObserved(1, r, TRUE)

SpecOverlay == InitDedup /\ [][NextOverlay]_vars

\* The sizes of the container, in pixels
Sizes == {0, 100, 200}

(* The lifecycle alone, with its scheduling: an effect whose dependencies   *)
(* changed runs, and a promise of the collaborator settles.                 *)
NextLive ==
    \/ setEnabled
    \/ autoEffect
    \/ \E i \in 1..MaxInst : startResolved(i)
    \/ \E i \in 1..MaxInst : startRejected(i)
    \/ \E i \in 1..MaxInst : stopResolved(i)
    \/ \E i \in 1..MaxInst : stopRejected(i)
    \/ unmount

SpecLive ==
    /\ Init
    /\ [][NextLive]_vars
    /\ WF_vars(autoEffect)
    /\ \A i \in 1..MaxInst : WF_vars(startResolved(i) \/ startRejected(i))
    /\ \A i \in 1..MaxInst : WF_vars(stopResolved(i) \/ stopRejected(i))

----------------------------------------------------------------------------

(* Vocabulary of the properties *)

Last(q) == q[Len(q)]

\* A step in which sendVisionUpdate was called, and the insight it was given
CallStep == lastCall' # lastCall
CallInsight == IF lastCall'[1].forceNow THEN pendingInsightRef[1] ELSE Last(accepted')
Deliverable == roomRef = "ready" /\ (lastCall'[1].forceNow \/ isConnectedRef)

\* A step in which the [isConnected] effects saw the flag go from false to true
ConnectedRisingStep == connDeps = FALSE /\ connDeps' = TRUE

\* The lower-cased whitespace-separated tokens of s that are longer than n:
\* the maximal whitespace-free stretches s[i..j]
TokenSet(s, n) ==
    { lowered(SubSeq(s, p[1], p[2])) :
        p \in { q \in (1..Len(s)) \X (1..Len(s)) :
                  /\ q[1] <= q[2]
                  /\ q[2] - q[1] + 1 > n
                  /\ \A k \in q[1]..q[2] : s[k] \notin Whitespace
                  /\ (q[1] = 1 \/ s[q[1] - 1] \in Whitespace)
                  /\ (q[2] = Len(s) \/ s[q[2] + 1] \in Whitespace) } }

\* Jaccard similarity of A and B is strictly greater than 8/10
JaccardAbove(A, B) ==
    /\ A \cup B # {}
    /\ 10 * Cardinality(A \cap B) > 8 * Cardinality(A \cup B)

\* A step in which a result was processed and recorded
ResultStep ==
    /\ lastResult' # Null
    /\ lastResult = Null \/ lastResult'[1].seq # lastResult[1].seq
Parsed(lr) == lr.result.ok /\ lr.result.form = "json"

----------------------------------------------------------------------------
(* C1: the relay is last-value-wins.  Whatever is pending is the insight    *)
(* accepted last; every insight handed successfully to the transport is     *)
(* the one accepted last at that moment, so an insight that was buffered    *)
(* and then overwritten is never sent; a forced delivery sends the pending  *)
(* insight.                                                                 *)
C1_PendingIsLast ==
    pendingInsightRef # Null =>
        accepted # <<>> /\ pendingInsightRef[1] = Last(accepted)

C1_SendsLast ==
    /\ sent' # sent => sent' = Append(sent, Last(accepted'))
    /\ (CallStep /\ lastCall'[1].forceNow /\ lastCall'[1].ret) =>
           /\ sent' = Append(sent, pendingInsightRef[1])
           /\ pendingInsightRef[1] = Last(accepted)

C1_LastValueWins == [] C1_PendingIsLast /\ [][C1_SendsLast]_vars

\* Two insights were accepted, none was delivered before the connected flag
\* became true, and the forced delivery sent the second.
C1_Witness ==
    /\ Len(accepted) = 2
    /\ sent = << accepted[2] >>
    /\ lastCall # Null /\ lastCall[1].forceNow /\ lastCall[1].ret
    /\ pendingInsightRef = Null

(* C2: sendVisionUpdate calls publishData only when the room has a local   *)
(* participant and, unless forced, isConnectedRef is true; otherwise it    *)
(* sends nothing, makes the insight the pending one and returns false.     *)
C2_Step ==
    CallStep =>
        /\ lastCall'[1].publish # "none" => Deliverable
        /\ ~Deliverable =>
              /\ lastCall'[1].publish = "none"
              /\ sent' = sent
              /\ pendingInsightRef' = Some(CallInsight)
              /\ lastCall'[1].ret = FALSE

C2_DeliveryGuard == [][C2_Step]_vars

\* After a delivery, an insight was buffered because the flag was false
\* although the room was joined.
C2_Witness ==
    /\ roomRef = "ready" /\ ~isConnectedRef
    /\ lastCall # Null /\ ~lastCall[1].forceNow /\ lastCall[1].publish = "none"
    /\ pendingInsightRef # Null /\ pendingInsightRef[1] = Last(accepted)
    /\ Len(sent) >= 1

(* C3: when publishData returns, the pending item is cleared and the call  *)
(* returns true; when it throws, the insight is kept as the pending item,  *)
(* the call returns false and raises nothing.                              *)
C3_Step ==
    CallStep =>
        /\ lastCall'[1].publish = "ok" =>
              /\ pendingInsightRef' = Null
              /\ lastCall'[1].ret = TRUE
        /\ lastCall'[1].publish = "threw" =>
              /\ pendingInsightRef' = Some(CallInsight)
              /\ lastCall'[1].ret = FALSE
        /\ lastCall'[1].raised = FALSE

C3_SendOutcome == [][C3_Step]_vars

\* A send threw while nothing was pending, and the insight is now pending.
C3_Witness ==
    /\ lastCall # Null /\ lastCall[1].publish = "threw" /\ ~lastCall[1].forceNow
    /\ roomRef = "ready" /\ isConnectedRef
    /\ pendingInsightRef # Null /\ pendingInsightRef[1] = Last(accepted)

(* C4: each time the effects see isConnected go from false to true while   *)
(* an item is pending, sendVisionUpdate is called once for it with         *)
(* forceNow; success empties the pending slot, failure keeps the item      *)
(* there; and a forced call happens at no other time.                      *)
C4_Step ==
    /\ (ConnectedRisingStep /\ pendingInsightRef # Null) =>
          /\ CallStep /\ lastCall'[1].forceNow
          /\ lastCall'[1].ret => pendingInsightRef' = Null
          /\ ~lastCall'[1].ret => pendingInsightRef' = pendingInsightRef
    /\ (CallStep /\ lastCall'[1].forceNow) =>
          ConnectedRisingStep /\ pendingInsightRef # Null

C4_FlushOnConnect == [][C4_Step]_vars

\* A forced delivery failed in a joined room and the item is still pending.
C4_Witness ==
    /\ lastCall # Null /\ lastCall[1].forceNow /\ lastCall[1].publish = "threw"
    /\ connDeps /\ isConnectedRef
    /\ pendingInsightRef # Null /\ pendingInsightRef[1] = Last(accepted)

\* From the last acceptance on, the status is fresh for 10 seconds and stale
\* afterwards (a timer that is due goes off before the clock moves on).
FreshThenStale ==
    accepted # <<>> =>
        LET t0 == Last(accepted).timestamp
        IN  /\ now - t0 < 10000 => visionStatus = "fresh"
            /\ now - t0 >= 10000 =>
                  \/ visionStatus = "stale"
                  \/ visionStatus = "fresh" /\ \E t \in timers : t.due <= now

(* C5 as stated: after an accepted insight and until the next one, the     *)
(* status is fresh for 10 seconds, then stale, and stays stale.            *)
C5_Timing == mounted => FreshThenStale

(* C5 as amended: the same, as long as neither stopVision nor startVision  *)
(* has run to its end since the last acceptance.                           *)
C5_TimingUnlessReset == ~resetSince => FreshThenStale

\* Stale, more than 10 seconds after the only acceptance
C5_Witness ==
    /\ Len(accepted) = 1 /\ ~resetSince
    /\ now - accepted[1].timestamp > 10000
    /\ visionStatus = "stale"

(* C6: an accepted insight cancels the pending stale timer and arms a new  *)
(* one; at most one stale timer is pending; the status is never stale less *)
(* than 10 seconds after the last acceptance.                              *)
C6_State ==
    /\ Cardinality(timers) <= 1
    /\ visionStatus = "stale" =>
          accepted # <<>> /\ now - Last(accepted).timestamp >= 10000

C6_Step ==
    accepted' # accepted =>
        /\ timers' = {[id |-> staleTimerRef', due |-> now + 10000]}
        /\ \A t \in timers : t.id # staleTimerRef'

C6_SingleTimer == [] C6_State /\ [][C6_Step]_vars

\* The first insight's 10 seconds are over, a second one came meanwhile and
\* the status is fresh.
C6_Witness ==
    /\ Len(accepted) = 2
    /\ accepted[1].timestamp + 10000 <= now
    /\ accepted[2].timestamp > accepted[1].timestamp
    /\ visionStatus = "fresh" /\ Cardinality(timers) = 1

(* C7: after n acceptances insightLog holds the min(n, 50) insights        *)
(* accepted last, newest first.                                            *)
C7_HistoryBound ==
    /\ Len(insightLog) = Min(Len(accepted), 50)
    /\ \A k \in 1..Len(insightLog) : insightLog[k] = accepted[Len(accepted) - k + 1]

\* Over 50 acceptances: the oldest were dropped.
C7_Witness ==
    /\ Len(accepted) > 50
    /\ Len(insightLog) = 50
    /\ insightLog[1] = Last(accepted)
    /\ insightLog[50].id = Len(accepted) - 49

(* C8: a parsed result is discarded exactly when the Jaccard similarity of *)
(* the token sets of its analysis and of the last accepted analysis is     *)
(* strictly above 0.8.                                                     *)
C8_DedupThreshold ==
    (lastResult # Null /\ Parsed(lastResult[1])) =>
        LET lr == lastResult[1]
            A  == TokenSet(lr.result.analysis, 2)
            B  == TokenSet(lr.last, 2)
        IN  /\ lr.outcome \in {"duplicate", "accepted"}
            /\ lr.outcome = "duplicate" <=> JaccardAbove(A, B)

\* A result at similarity exactly 0.8 was accepted.
C8_Witness ==
    /\ lastResult # Null /\ Parsed(lastResult[1])
    /\ lastResult[1].outcome = "accepted"
    /\ LET A == TokenSet(lastResult[1].result.analysis, 2)
           B == TokenSet(lastResult[1].last, 2)
       IN  10 * Cardinality(A \cap B) = 8 * Cardinality(A \cup B) /\ A # {}

(* C9: a result whose analysis repeats that of the result before it, which *)
(* was accepted, with no lens change or stop in between and at least one   *)
(* token longer than 2 characters, is discarded: no new insight, nothing   *)
(* added to the history, nothing relayed.                                  *)
C9_Step ==
    ( /\ ResultStep
      /\ lastResult # Null
      /\ Parsed(lastResult[1]) /\ Parsed(lastResult'[1])
      /\ lastResult[1].outcome = "accepted"
      /\ ~lastResult[1].interrupted
      /\ lastResult'[1].result.analysis = lastResult[1].result.analysis
      /\ TokenSet(lastResult[1].result.analysis, 2) # {} )
    => /\ lastResult'[1].outcome = "duplicate"
       /\ UNCHANGED << accepted, latestInsight, insightLog, sent, pendingInsightRef, lastCall >>

C9_RepeatDiscarded == [][C9_Step]_vars

\* A repeat was discarded while the relay could deliver.
C9_Witness ==
    /\ lastResult # Null /\ Parsed(lastResult[1])
    /\ lastResult[1].outcome = "duplicate"
    /\ lastResult[1].result.analysis = lastResult[1].last
    /\ Len(accepted) = 1 /\ sent = accepted
    /\ roomRef = "ready" /\ isConnectedRef

(* C10: when the new analysis or the last accepted one is empty or has no  *)
(* token longer than 2 characters, the similarity is 0 and the result is   *)
(* accepted.                                                               *)
C10_EmptySafety ==
    (lastResult # Null /\ Parsed(lastResult[1])) =>
        LET lr == lastResult[1]
        IN  ( \/ lr.result.analysis = <<>> \/ lr.last = <<>>
              \/ TokenSet(lr.result.analysis, 2) = {} \/ TokenSet(lr.last, 2) = {} )
            => lr.similarity.num = 0 /\ lr.outcome = "accepted"

\* Short tokens only, after an accepted text with long tokens
C10_Witness ==
    /\ lastResult # Null /\ Parsed(lastResult[1])
    /\ lastResult[1].result.analysis # <<>>
    /\ TokenSet(lastResult[1].result.analysis, 2) = {}
    /\ TokenSet(lastResult[1].last, 2) # {}
    /\ lastResult[1].outcome = "accepted"

(* C11: changeLens empties the dedup memory: the first result carrying a   *)
(* JSON object that is processed after a changeLens call is accepted, also *)
(* when its analysis is the text accepted last before the call.            *)
C11_Step ==
    /\ lens' # lens => lastAnalysisRef' = <<>>
    /\ ( /\ ResultStep
         /\ lastResult # Null /\ lastResult[1].lensChanged
         /\ Parsed(lastResult'[1]) )
       => /\ lastResult'[1].outcome = "accepted"
          /\ Len(accepted') = Len(accepted) + 1
          /\ Last(accepted').data.analysis = lastResult'[1].result.analysis

C11_LensResetsDedup == [][C11_Step]_vars

\* The same text was accepted under geometry and, after the switch, under story.
C11_Witness ==
    /\ Len(accepted) = 2
    /\ accepted[1].data.analysis = accepted[2].data.analysis
    /\ TokenSet(accepted[2].data.analysis, 2) # {}
    /\ accepted[1].lens = "geometry" /\ accepted[2].lens = "story"
    /\ lastResult # Null /\ lastResult[1].outcome = "accepted"
    /\ Started = 1

(* C12: an accepted insight carries the lens of the last changeLens call   *)
(* that returned before its result was processed (the lens state), not the *)
(* lens under which its clip was requested.                                *)
C12_Step == accepted' # accepted => Last(accepted').lens = lens

C12_TaggedAtProcessing == [][C12_Step]_vars

\* A result was accepted under story after the switch and before the
\* [lens] effect ran, on an instance created under geometry.
C12_Witness ==
    /\ Len(accepted) = 2
    /\ accepted[1].lens = "geometry" /\ accepted[2].lens = "story"
    /\ lens = "story" /\ lensDeps = "geometry"

(* C13: a switch of the lens while the session streams leaves the session  *)
(* streaming on the same handle, with no stop begun and no instance        *)
(* created; the collaborator's only change is that the handle's prompt is  *)
(* the new lens's prompt.                                                  *)
C13_Step ==
    (lens' # lens /\ isStreaming /\ visionRef # 0) =>
        /\ isStreaming' /\ visionRef' = visionRef /\ stopping' = stopping
        /\ inst' = [inst EXCEPT ![visionRef].prompt = LENS_PROMPTS[lens']]

C14_Step ==
    (ResultStep /\ lastResult'[1].outcome \in {"unparsed", "duplicate"}) =>
        UNCHANGED << latestInsight, insightLog, accepted, visionStatus,
                     timers, staleTimerRef, lastAnalysisRef,
                     pendingInsightRef, sent, lastCall >>

C14_SkipChangesNothing == [][C14_Step]_vars

\* A duplicate was skipped while an insight was pending, fresh and timed.
C14_Witness ==
    /\ lastResult # Null /\ lastResult[1].outcome = "duplicate"
    /\ Len(accepted) = 1
    /\ pendingInsightRef = Some(accepted[1]) /\ latestInsight = Some(accepted[1])
    /\ visionStatus = "fresh" /\ timers # {}

\* No startVision and no stopVision call is suspended at its await
Settled == \A i \in 1..MaxInst : inst[i].st # "starting" /\ stopping[i] = 0

(* C15: every stop releases the handle and cancels the stale timer: once   *)
(* the hook has unmounted and its calls have settled, no handle is held,   *)
(* no instance runs and no timer is pending; a stopVision call that ends,  *)
(* its stop() resolved or rejected, leaves no handle and no timer; a stop  *)
(* of a session already stopped changes nothing.                           *)
C15_State ==
    (~mounted /\ Settled) =>
        /\ visionRef = 0 /\ ~isStreaming
        /\ timers = {} /\ staleTimerRef = 0
        /\ \A i \in 1..MaxInst : inst[i].st # "running"

C15_Step ==
    /\ (\E i \in 1..MaxInst : stopping'[i] < stopping[i]) =>
          /\ visionRef' = 0 /\ ~isStreaming'
          /\ timers' = {} /\ staleTimerRef' = 0
    /\ (mounted /\ ~mounted' /\ visionRef = 0 /\ ~isStreaming /\ Settled) =>
          UNCHANGED << visionRef, isStreaming, visionStatus, timers, staleTimerRef,
                       lastAnalysisRef, inst, stopping, error >>

C15_StopReleases == [] C15_State /\ [][C15_Step]_vars

(* C16: when a session starts streaming after an earlier one was stopped,  *)
(* the dedup memory is empty, no insight is pending and the history log is *)
(* empty.                                                                  *)
C16_Step ==
    ( /\ ~isStreaming /\ isStreaming'
      /\ \E j \in 1..MaxInst : inst[j].st = "stopped" )
    => /\ lastAnalysisRef' = <<>>
       /\ pendingInsightRef' = Null
       /\ insightLog' = <<>>

C16_CleanRestart == [][C16_Step]_vars

(* C17: a start that fails, for want of credentials or because start()     *)
(* rejects, sets the error to a start-failure message and touches neither  *)
(* isStreaming nor the handle; as long as no start has succeeded the       *)
(* session is not streaming and holds no handle; the handle is never an    *)
(* instance whose start failed; a start that resolves afterwards makes the *)
(* session stream and clears the error.                                    *)
C17_State ==
    /\ (\A i \in 1..MaxInst : inst[i].st \in {"unused", "starting", "failed"}) =>
          ~isStreaming /\ visionRef = 0
    /\ visionRef # 0 => inst[visionRef].st \notin {"unused", "starting", "failed"}

C17_Step ==
    /\ (\E i \in 1..MaxInst : inst[i].st = "starting" /\ inst'[i].st = "failed") =>
          /\ error' = "Vision start failed"
          /\ UNCHANGED << isStreaming, visionRef, visionStatus >>
    /\ (autoDeps' # autoDeps /\ enabled /\ ~isStreaming /\ ~credentials) =>
          /\ error' = "Vision start failed: Overshoot API credentials not configured"
          /\ UNCHANGED << isStreaming, visionRef, visionStatus, inst >>
    /\ (\E i \in 1..MaxInst : inst[i].st = "starting" /\ inst'[i].st = "running") =>
          /\ isStreaming' /\ visionRef' # 0 /\ inst'[visionRef'].st = "running"
          /\ error' = "null"

C18_Step ==
    (ResultStep /\ ~lastResult'[1].result.ok) =>
        /\ error' # "null"
        /\ UNCHANGED << isStreaming, visionRef, inst, stopping >>

C18_RuntimeErrorSurfaced == [][C18_Step]_vars

(* C19: the error is one message: a new error replaces it, and a start     *)
(* that succeeds or a result that is accepted clears it.                   *)
C19_Step ==
    /\ (\E i \in 1..MaxInst : inst[i].st = "starting" /\ inst'[i].st = "running") =>
          error' = "null"
    /\ accepted' # accepted => error' = "null"
    /\ error' # error => error' \in {"null", "Vision error", "Vision start failed",
                          "Vision start failed: Overshoot API credentials not configured"}

C19_ErrorCleared == [][C19_Step]_vars

\* A start has failed, for want of credentials or because start() rejected
StartFailed == ~credentials \/ \E i \in 1..MaxInst : inst[i].st = "failed"

(* C20: while the hook is mounted, if enabled stays true and no start      *)
(* fails the session comes to stream, and if enabled stays false the       *)
(* session comes to be idle with no handle.                                *)
C20_FollowsEnabled ==
    /\ []<>(~mounted \/ ~enabled \/ isStreaming \/ StartFailed \/ Unused = {})
    /\ []<>(~mounted \/ enabled
              \/ (~isStreaming /\ visionRef = 0 /\ visionStatus = "idle"))

\* The last result was accepted: it is the input of the parse whose output
\* is the data of the latest insight.
ParsedNow == lastResult # Null /\ lastResult[1].outcome = "accepted"
In  == lastResult[1].result
Out == latestInsight[1].data

\* A number of JavaScript within [lo, hi], in tenths
Within(v, lo, hi) == v.t = "num" /\ lo <= v.n /\ v.n <= hi

\* The entries of a response's overlays array are all objects with a
\* non-empty string type
WellTyped(raw) ==
    /\ raw.form = "json" /\ raw.overlays # <<>>
    /\ \A k \in 1..Len(raw.overlays[1]) :
          /\ raw.overlays[1][k].kind = "obj"
          /\ raw.overlays[1][k].type.t = "str" /\ raw.overlays[1][k].type.s # ""

(* C21: in a parsed response every overlay that has coordinates has four   *)
(* numbers in [0,1], whatever the components of the input were; a          *)
(* response whose entries are typed objects is parsed and keeps them all,  *)
(* with coordinates where the input has an array of two or more.           *)
C21_Clamped ==
    /\ ParsedNow =>
          \A k \in 1..Len(Out.overlays) :
              Out.overlays[k].coordinates # <<>> =>
                  \A j \in 1..4 : Within(Out.overlays[k].coordinates[1][j], 0, 10)
    /\ (lastResult # Null /\ lastResult[1].result.ok /\ WellTyped(lastResult[1].result)) =>
          lastResult[1].outcome # "unparsed"
    /\ (ParsedNow /\ WellTyped(In)) =>
          /\ Len(Out.overlays) = Len(In.overlays[1])
          /\ \A k \in 1..Len(Out.overlays) :
                (In.overlays[1][k].coordinates # <<>>
                   /\ Len(In.overlays[1][k].coordinates[1]) >= 2)
                => Out.overlays[k].coordinates # <<>>

\* A whole number of JavaScript, in tenths
Whole(v) == v.t = "num" /\ v.n % 10 = 0

(* C22: the score of a parsed response is an integer in 1..10: a whole     *)
(* number s gives s clamped into 1..10, a missing score and one that is    *)
(* null, a boolean or a string that reads as no number give 5.             *)
C22_ScoreBound ==
    ParsedNow =>
        /\ Out.score \in 1..10
        /\ Whole(In.score) => Out.score = Max(1, Min(10, In.score.n \div 10))
        /\ In.score.t \in {"undefined", "null", "bool", "text", "emptystr"} => Out.score = 5

(* C23: a response with no {...} substring, or whose substring does not    *)
(* decode, parses to no result; the result is skipped: nothing is written  *)
(* and the session streams on with its handle, no error set.               *)
C23_State ==
    (lastResult # Null /\ lastResult[1].result.ok
       /\ lastResult[1].result.form \in {"nobrace", "undecodable"})
    => lastResult[1].outcome = "unparsed"

C23_Step ==
    (ResultStep /\ lastResult'[1].outcome = "unparsed") =>
        UNCHANGED << isStreaming, visionRef, inst, stopping, error, visionStatus,
                     latestInsight, insightLog, accepted, lastAnalysisRef,
                     timers, staleTimerRef, pendingInsightRef, sent, lastCall >>

C23_ParseFailureSkips == [] C23_State /\ [][C23_Step]_vars

\* A response that does not decode was skipped and the session streams.
C23_Witness ==
    /\ lastResult # Null /\ lastResult[1].result.form = "undecodable"
    /\ lastResult[1].outcome = "unparsed"
    /\ isStreaming /\ visionRef = 1 /\ inst[1].st = "running"
    /\ latestInsight = Null

\* The types of the entries that have a non-empty string type, in order
RECURSIVE StringTypes(_)
StringTypes(entries) ==
    IF entries = <<>> THEN <<>>
    ELSE (IF Head(entries).kind = "obj" /\ Head(entries).type.t = "str"
             /\ Head(entries).type.s # ""
          THEN << Head(entries).type.s >> ELSE <<>>)
         \o StringTypes(Tail(entries))

(* C24: a response that decodes and has an overlays array is parsed, and   *)
(* its overlays are the entries with a string type, in their order;        *)
(* entries that are null, numbers, strings or objects with no type are     *)
(* dropped.                                                                *)
C24_OverlayFilter ==
    (lastResult # Null /\ lastResult[1].result.ok
       /\ lastResult[1].result.form = "json" /\ lastResult[1].result.overlays # <<>>
       /\ lastResult[1].last = <<>>)
    => /\ lastResult[1].outcome = "accepted"
       /\ [k \in 1..Len(Out.overlays) |-> Out.overlays[k].type]
             = StringTypes(In.overlays[1])

(* C28: an accepted insight makes the status fresh, and a status that is   *)
(* fresh or stale becomes idle only in a step that stops the session: the  *)
(* end of a stopVision call, which leaves the session not streaming.       *)
C28_Step ==
    /\ accepted' # accepted => visionStatus' = "fresh"
    /\ (visionStatus # "idle" /\ visionStatus' = "idle") =>
          /\ ~isStreaming'
          /\ \/ \E i \in 1..MaxInst : stopping'[i] < stopping[i]
             \/ visionRef = 0

C28_IdleOnlyBeforeInsight == [][C28_Step]_vars

(* C29: a connection on a parsed overlay is a whole number that is not     *)
(* negative.                                                               *)
C29_ConnectionIndex ==
    ParsedNow =>
        \A k \in 1..Len(Out.overlays) :
            Out.overlays[k].connection # <<>> =>
                /\ Whole(Out.overlays[k].connection[1])
                /\ Out.overlays[k].connection[1].n >= 0

\* The overlays the components are given: those of the latest insight
overlays == IF latestInsight = Null THEN <<>> ELSE latestInsight[1].data.overlays

\* The links StoryOverlay draws in a container of W by H, << >> when it
\* returns null or throws
Links(W, H) ==
    LET r == StoryOverlay(overlays, W, H)
    IN  IF r = Null \/ r[1].threw THEN <<>> ELSE r[1].connections

\* The story subject at place i of the overlays names the one at place j
Names(i, j) ==
    /\ i \in 1..Len(overlays) /\ j \in 1..Len(overlays)
    /\ overlays[i].type = "story_subject" /\ overlays[j].type = "story_subject"
    /\ overlays[i].connection = << Num(10 * (j - 1)) >>

(* C25: no two links StoryOverlay draws join the same pair of story        *)
(* subjects, in either direction; two subjects that name each other are    *)
(* joined by exactly one link.                                             *)
C25_PairOnce ==
    \A W \in Sizes, H \in Sizes :
        LET c == Links(W, H)
        IN  /\ \A m \in 1..Len(c), n \in 1..Len(c) :
                  m # n => {c[m].from.index, c[m].to[1].index}
                              # {c[n].from.index, c[n].to[1].index}
            /\ (W # 0 /\ H # 0 /\ Len(overlays) = 2 /\ Names(1, 2) /\ Names(2, 1))
                  => Len(c) = 1

\* Two story subjects that name each other are drawn with one link.
C25_Witness ==
    /\ ParsedNow /\ Len(overlays) = 2 /\ Names(1, 2) /\ Names(2, 1)
    /\ Len(Links(100, 200)) = 1
    /\ Links(100, 200)[1].from.index = 0 /\ Links(100, 200)[1].to[1].index = 1

(* C26: a link drawn from the story subject at place i of the batch, whose *)
(* connection is j, ends at the overlay at place j of the batch; and a     *)
(* story subject whose connection is the place of another story subject    *)
(* of the batch is joined to it by a link.                                 *)
C26_BatchIndex ==
    \A W \in Sizes \ {0}, H \in Sizes \ {0} :
        LET r == StoryOverlay(overlays, W, H)
            c == Links(W, H)
        IN  /\ \A m \in 1..Len(c) :
                  c[m].from.overlay.connection = << Num(10 * c[m].to[1].pos) >>
            /\ \A i \in 1..Len(overlays), j \in 1..Len(overlays) :
                  (r # Null /\ ~r[1].threw /\ i # j /\ Names(i, j)) =>
                      \E m \in 1..Len(c) :
                          {c[m].from.pos, c[m].to[1].pos} = {i - 1, j - 1}

(* C27: DirectorOverlay and StoryOverlay return nothing when the container *)
(* is 0 wide or 0 high or there is no overlay, and DirectorOverlay returns *)
(* an element list in every other case.                                    *)
C27_EmptyResult ==
    \A W \in Sizes, H \in Sizes :
        /\ (W = 0 \/ H = 0 \/ Len(overlays) = 0) =>
              /\ DirectorOverlay(overlays, W, H) = Null
              /\ StoryOverlay(overlays, W, H) = Null
        /\ (W # 0 /\ H # 0 /\ Len(overlays) # 0) =>
              /\ DirectorOverlay(overlays, W, H) # Null
              /\ Len(DirectorOverlay(overlays, W, H)[1]) = Len(overlays)

\* A batch with a story subject in it is drawn in a container of 100 by
\* 200 and not in one that is 100 wide and 0 high.
C27_Witness ==
    /\ ParsedNow /\ Len(overlays) = 2
    /\ overlays[1].type = "subject_highlight" /\ overlays[2].type = "story_subject"
    /\ DirectorOverlay(overlays, 100, 200) # Null
    /\ StoryOverlay(overlays, 100, 200) # Null
    /\ DirectorOverlay(overlays, 100, 0) = Null
    /\ StoryOverlay(overlays, 100, 0) = Null

\* The box (x*W, y*H, w*W, h*H) of coordinates that are numbers, in tenths
\* of a pixel
IsBox(b, coords, W, H) ==
    /\ b.left   = Num(coords[1].n * W) /\ b.top    = Num(coords[2].n * H)
    /\ b.width  = Num(coords[3].n * W) /\ b.height = Num(coords[4].n * H)

Numbers(coords) == \A k \in 1..4 : coords[k].t = "num"

(* C30: in a container of W by H the box drawn for a subject_highlight or  *)
(* a story_subject with coordinates (x, y, w, h) is (x*W, y*H, w*W, h*H),  *)
(* and the point drawn for a focus_point is (x*W, y*H).                    *)
C30_PixelRect ==
    \A W \in Sizes \ {0}, H \in Sizes \ {0} :
        LET d == DirectorOverlay(overlays, W, H)
            s == StoryOverlay(overlays, W, H)
        IN  /\ \A k \in 1..Len(overlays) :
                  (overlays[k].coordinates # <<>> /\ Numbers(overlays[k].coordinates[1])) =>
                     LET coords == overlays[k].coordinates[1]
                     IN  /\ overlays[k].type = "subject_highlight" =>
                               /\ d[1][k].el = "SubjectHighlight"
                               /\ IsBox(d[1][k].box, coords, W, H)
                         /\ overlays[k].type = "focus_point" =>
                               /\ d[1][k].el = "FocusPoint"
                               /\ d[1][k].point = [left |-> Num(coords[1].n * W),
                                                   top  |-> Num(coords[2].n * H)]
            /\ (s # Null /\ ~s[1].threw) =>
                  \A k \in 1..Len(s[1].subjects) :
                      LET sub == s[1].subjects[k]
                      IN  (sub.overlay.coordinates # <<>>
                             /\ Numbers(sub.overlay.coordinates[1])) =>
                          IsBox([left |-> sub.x, top |-> sub.y,
                                 width |-> sub.width, height |-> sub.height],
                                sub.overlay.coordinates[1], W, H)

\* A box of (0.1, 0.2, 0.3, 0.4) is drawn at (10, 40) and is 30 by 80 in a
\* container of 100 by 200, and a point of (0.6, 0.7) at (60, 140).
C30_Witness ==
    /\ ParsedNow /\ Len(overlays) = 2
    /\ overlays[1].type = "subject_highlight" /\ overlays[1].coordinates # <<>>
    /\ overlays[2].type = "focus_point" /\ overlays[2].coordinates # <<>>
    /\ DirectorOverlay(overlays, 100, 200)[1][1].box
          = [left |-> Num(100), top |-> Num(400), width |-> Num(300), height |-> Num(800)]
    /\ DirectorOverlay(overlays, 100, 200)[1][2].point
          = [left |-> Num(600), top |-> Num(1400)]

\* The instances that were started and are not stopped
Live == {i \in 1..MaxInst : inst[i].st \in {"running", "stopping"}}

(* C31: at most one RealtimeVision instance is started and not stopped,    *)
(* and the hook holds the handle of every such instance.                   *)
C31_OneHandle ==
    /\ Cardinality(Live) <= 1
    /\ \A i \in Live : visionRef = i

(* C32: while the session streams, the prompt of the instance the hook     *)
(* holds is the prompt of the lens.                                         *)
C32_PromptOfLens ==
    (isStreaming /\ visionRef # 0) => inst[visionRef].prompt = LENS_PROMPTS[lens]

(* C33: the pending insight of the relay is null or is latestInsight; one  *)
(* accepted before the latest is never pending.                            *)
C33_PendingIsLatest ==
    /\ pendingInsightRef = Null \/ pendingInsightRef = latestInsight
    /\ \A k \in 1..Len(accepted) - 1 : pendingInsightRef # Some(accepted[k])

\* The second of two insights is pending, the first having been pending
\* before it, and nothing was delivered.
C33_Witness ==
    /\ Len(accepted) = 2 /\ sent = <<>>
    /\ pendingInsightRef = Some(accepted[2])
    /\ latestInsight = Some(accepted[2])
    /\ accepted[1] # accepted[2]

(* C34: the insights handed to the transport are accepted insights, in     *)
(* the order of their acceptance and each at most once.                    *)
C34_SentInOrder ==
    /\ \A m \in 1..Len(sent) :
          sent[m].id \in 1..Len(accepted) /\ sent[m] = accepted[sent[m].id]
    /\ \A m \in 1..Len(sent), n \in 1..Len(sent) :
          m < n => sent[m].id < sent[n].id

\* The first insight was delivered, the second was buffered and overwritten
\* by the third, which a forced delivery sent.
C34_Witness ==
    /\ Len(accepted) = 3
    /\ sent = << accepted[1], accepted[3] >>
    /\ lastCall # Null /\ lastCall[1].forceNow /\ lastCall[1].ret
    /\ pendingInsightRef = Null

(* C35: when the room is joined, isConnected is true and the effects of    *)
(* isConnected have run for it, an insight is pending only if the last     *)
(* sendVisionUpdate call, which was for it, reached publishData and        *)
(* publishData threw.                                                      *)
C35_PendingOnlyAfterFailure ==
    (roomRef = "ready" /\ isConnected /\ connDeps = isConnected /\ isConnectedRef
       /\ pendingInsightRef # Null)
    => /\ lastCall # Null /\ lastCall[1].publish = "threw"
       /\ pendingInsightRef = latestInsight

\* A forced delivery failed in a joined and connected room: the insight is
\* still pending.
C35_Witness ==
    /\ roomRef = "ready" /\ isConnected /\ connDeps = isConnected /\ isConnectedRef
    /\ pendingInsightRef # Null
    /\ lastCall # Null /\ lastCall[1].forceNow /\ lastCall[1].publish = "threw"

(* C36: while the status is idle or stale no stale-transition timer is     *)
(* pending.                                                                *)
C36_TimerOnlyWhileFresh ==
    visionStatus \in {"idle", "stale"} => timers = {}

\* stopVision has run to its end and no session was started since
Stopped ==
    /\ ~isStreaming /\ visionRef = 0
    /\ \E i \in 1..MaxInst : inst[i].st = "stopped"
    /\ \A i \in 1..MaxInst : inst[i].st \in {"unused", "stopped", "failed"} /\ stopping[i] = 0

(* C37: when stopVision has run to its end and no session was started      *)
(* since, the status is idle, no timer is pending and the last result      *)
(* processed made no insight unless it came before the stop.               *)
C37_NoInsightAfterStop ==
    Stopped =>
        /\ visionStatus = "idle"
        /\ timers = {}
        /\ lastResult # Null =>
              lastResult[1].interrupted \/ lastResult[1].outcome # "accepted"

(* C38: latestInsight is null exactly when insightLog is empty, and        *)
(* otherwise it is the entry at index 0 of insightLog.                     *)
C38_LatestHeadsLog ==
    /\ latestInsight = Null <=> insightLog = << >>
    /\ latestInsight # Null => latestInsight[1] = insightLog[1]

\* two insights accepted and the session stopped: both values are kept
C38_Witness ==
    /\ Len(insightLog) >= 2
    /\ latestInsight = Some(insightLog[1])
    /\ insightLog[1] = accepted[Len(accepted)]
    /\ insightLog[1] # insightLog[2]
    /\ ~isStreaming /\ visionRef = 0

----------------------------------------------------------------------------

TypeOK ==
    /\ roomRef \in {"null", "noParticipant", "ready"}
    /\ visionStatus \in {"idle", "fresh", "stale"}
    /\ lens \in LensMode
    /\ currentLensRef \in LensMode
    /\ visionRef \in 0..MaxInst
    /\ Len(latestInsight) <= 1
    /\ Len(pendingInsightRef) <= 1

====
